---- MODULE Spec2Model ----
(***************************************************************************)
(* A model of the finance fetcher: the Coordinator's fan-out/fan-in over   *)
(* a list of Fetchers (internal/coordinator/coordinator.go), the three     *)
(* Fetch Unit variants (wallet, stock, valuation), the per-source rate     *)
(* limiter (internal/ratelimit/limiter.go) and the retry policy and error  *)
(* classification of the fetcher package.                                  *)
(***************************************************************************)
EXTENDS Integers, Sequences, FiniteSets, TLC

(***************************************************************************)
(* Bounds of the model.                                                    *)
(***************************************************************************)
\* the longest unit list handed to coordinator.New
MaxUnits == 2

\* the most units whose Fetch runs concurrently in FetchSpec
MaxFetchers == 2

\* the largest status code retryCondition and ClassifyHTTPError are applied to
MaxStatus == 600

\* the most direct calls of the limiter in LimiterSpec
MaxCallers == 2

\* the most token periods that pass on a source whose bucket is full
MaxTicks == 2

\* the most whole ETH of a wallet balance that is converted
MaxEth == 100

\* the most characters of a price field drawn from PriceChars
MaxPriceLen == 3

\* the most Fetch calls made one after the other on one valuation unit
MaxFetches == 3

\* the most characters of an identifier drawn from IdentChars
MaxIdentLen == 3

(***************************************************************************)
(* Program constants.                                                      *)
(***************************************************************************)
defaultRetryCount == 3

\* burst of every rate.NewLimiter call in initLimiters
Burst == 1

APIEtherscan == "etherscan"
APIAlphaVantage == "alphavantage"
APIRentcast == "rentcast"

\* the keys of Limiter.limiters after initLimiters
RegisteredAPIs == {APIEtherscan, APIAlphaVantage, APIRentcast}

ErrorTypeNetwork == "network"
ErrorTypeRateLimit == "rate_limit"
ErrorTypeServer == "server"
ErrorTypeClient == "client"
ErrorTypeValidation == "validation"
ErrorTypeTimeout == "timeout"
ErrorTypeUnknown == "unknown"

ErrorTypes ==
  { ErrorTypeNetwork, ErrorTypeRateLimit, ErrorTypeServer, ErrorTypeClient,
    ErrorTypeValidation, ErrorTypeTimeout, ErrorTypeUnknown }

(***************************************************************************)
(* Errors.  An error value is a record; "nil" is the nil error, "plain" an *)
(* error made by fmt.Errorf without a FetchError in its chain, "ctx" the   *)
(* context's own error, "FetchError" a *fetcher.FetchError and "wrapFE" a  *)
(* fmt.Errorf("...: %w", fetchErr) around a FetchError.                    *)
(***************************************************************************)
NilErr == [kind |-> "nil"]

CtxErr == [kind |-> "ctx"]

PlainErr(msg) == [kind |-> "plain", msg |-> msg]

FetchError(type, retryable, statusCode, cause) ==
  [kind |-> "FetchError", Type |-> type, Retryable |-> retryable,
   StatusCode |-> statusCode, Cause |-> cause]

\* NewNetworkError that is not retryable
NewNetworkErrorNotRetryable(cause) ==
  FetchError(ErrorTypeNetwork, FALSE, 0, cause)

NewNetworkError(cause) == FetchError(ErrorTypeNetwork, TRUE, 0, cause)

NewRateLimitError(statusCode) ==
  FetchError(ErrorTypeRateLimit, TRUE, statusCode, "none")

NewServerError(statusCode) ==
  FetchError(ErrorTypeServer, TRUE, statusCode, "none")

NewClientError(statusCode) ==
  FetchError(ErrorTypeClient, FALSE, statusCode, "none")

NewValidationError == FetchError(ErrorTypeValidation, FALSE, 0, "none")

\* NewTimeoutError that tags the error as a network failure
NewTimeoutErrorAsNetwork(cause) == FetchError(ErrorTypeNetwork, TRUE, 0, cause)

NewTimeoutError(cause) == FetchError(ErrorTypeTimeout, TRUE, 0, cause)

\* ClassifyHTTPError that tests the 5xx range before 429 and takes 499 for it
ClassifyHTTPErrorFrom499(statusCode) ==
  IF statusCode >= 499 THEN NewServerError(statusCode)
  ELSE IF statusCode = 429 THEN NewRateLimitError(statusCode)
  ELSE IF statusCode >= 400 THEN NewClientError(statusCode)
  ELSE FetchError(ErrorTypeUnknown, FALSE, statusCode, "none")

ClassifyHTTPError(statusCode) ==
  IF statusCode = 429 THEN NewRateLimitError(statusCode)
  ELSE IF statusCode >= 500 THEN NewServerError(statusCode)
  ELSE IF statusCode >= 400 THEN NewClientError(statusCode)
  ELSE FetchError(ErrorTypeUnknown, FALSE, statusCode, "none")

\* fmt.Errorf("...: %w", fetchErr)
WrapFetchError(fe) == [kind |-> "wrapFE", inner |-> fe]

\* errors.As(err, *FetchError): follows FetchError.Unwrap and %w
IsFetchError(err) == err.kind \in {"FetchError", "wrapFE"}

AsFetchError(err) == IF err.kind = "wrapFE" THEN err.inner ELSE err

(***************************************************************************)
(* Strings are sequences of one-character strings, so that parsing and key *)
(* normalisation are computed character by character.                      *)
(***************************************************************************)
DigitChars == {"0", "1", "2", "3", "4", "5", "6", "7", "8", "9"}

DigitVal(c) ==
  CASE c = "0" -> 0 [] c = "1" -> 1 [] c = "2" -> 2 [] c = "3" -> 3
    [] c = "4" -> 4 [] c = "5" -> 5 [] c = "6" -> 6 [] c = "7" -> 7
    [] c = "8" -> 8 [] c = "9" -> 9

RECURSIVE DigitsToNat(_)
\* the natural number written by a sequence of decimal digits
DigitsToNat(s) ==
  IF s = <<>> THEN 0
  ELSE 10 * DigitsToNat(SubSeq(s, 1, Len(s) - 1)) + DigitVal(s[Len(s)])

\* the first two digits of a fraction, as hundredths
Hundredths(frac) ==
  IF Len(frac) = 0 THEN 0
  ELSE IF Len(frac) = 1 THEN 10 * DigitVal(frac[1])
  ELSE 10 * DigitVal(frac[1]) + DigitVal(frac[2])

UpperCase ==
  << "A", "B", "C", "D", "E", "F", "G", "H", "I", "J", "K", "L", "M",
     "N", "O", "P", "Q", "R", "S", "T", "U", "V", "W", "X", "Y", "Z" >>

LowerCase ==
  << "a", "b", "c", "d", "e", "f", "g", "h", "i", "j", "k", "l", "m",
     "n", "o", "p", "q", "r", "s", "t", "u", "v", "w", "x", "y", "z" >>

\* the lower-case letter of every upper-case letter
LowerOf ==
  [c \in {UpperCase[k] : k \in 1..26} |->
     LowerCase[CHOOSE k \in 1..26 : UpperCase[k] = c]]

\* strings.ToLower, on ASCII
ToLowerChar(c) == IF c \in DOMAIN LowerOf THEN LowerOf[c] ELSE c

ToLower(s) == [k \in 1..Len(s) |-> ToLowerChar(s[k])]

\* the float64 values that are not numbers of cents
NaN == "NaN"

Inf(neg) == IF neg THEN "-Inf" ELSE "+Inf"

\* strconv.ParseFloat(s, 64) on strings of signs, digits, "." and letters
\* that write no exponent and no hexadecimal number: "nan" and, with an
\* optional sign, "inf" and "infinity" are accepted in any case; a decimal
\* has an optional sign, at least one digit and at most one "."; a finite
\* value is kept in hundredths (cents)
ParseFloat(s) ==
  LET signed == s # <<>> /\ s[1] \in {"+", "-"}
      t == IF signed THEN Tail(s) ELSE s
      neg == signed /\ s[1] = "-"
      dots == {k \in 1..Len(t) : t[k] = "."}
      wellFormed == /\ \A k \in 1..Len(t) : t[k] \in DigitChars \cup {"."}
                    /\ Cardinality(dots) <= 1
                    /\ \E k \in 1..Len(t) : t[k] \in DigitChars
  IN IF ~signed /\ ToLower(s) = <<"n", "a", "n">>
     THEN [ok |-> TRUE, v |-> NaN]
     ELSE IF ToLower(t) \in {<<"i", "n", "f">>,
                              <<"i", "n", "f", "i", "n", "i", "t", "y">>}
     THEN [ok |-> TRUE, v |-> Inf(neg)]
     ELSE IF ~wellFormed THEN [ok |-> FALSE, v |-> 0]
     ELSE LET d == IF dots = {} THEN Len(t) + 1 ELSE CHOOSE k \in dots : TRUE
              whole == SubSeq(t, 1, d - 1)
              frac == SubSeq(t, d + 1, Len(t))
              cents == 100 * DigitsToNat(whole) + Hundredths(frac)
          IN [ok |-> TRUE, v |-> IF neg THEN -cents ELSE cents]

\* new(big.Int).SetString(s, 10): the digits, or not ok
BigIntSetString(s) ==
  IF s # <<>> /\ \A k \in 1..Len(s) : s[k] \in DigitChars
  THEN [ok |-> TRUE, digits |-> s]
  ELSE [ok |-> FALSE, digits |-> <<>>]

\* a sequence left-padded with "0" to at least n digits
RECURSIVE PadLeft(_, _)
PadLeft(s, n) == IF Len(s) >= n THEN s ELSE PadLeft(<<"0">> \o s, n)

DigitChar(d) ==
  CASE d = 0 -> "0" [] d = 1 -> "1" [] d = 2 -> "2" [] d = 3 -> "3"
    [] d = 4 -> "4" [] d = 5 -> "5" [] d = 6 -> "6" [] d = 7 -> "7"
    [] d = 8 -> "8" [] d = 9 -> "9"

\* the decimal digits of a natural number
RECURSIVE NatToDigits(_)
NatToDigits(n) ==
  IF n < 10 THEN <<DigitChar(n)>>
  ELSE NatToDigits(n \div 10) \o <<DigitChar(n % 10)>>

\* the digits of (the number written s) * m + carry, by long multiplication
\* from the last digit: numbers of any length, as big.Int and big.Float hold
RECURSIVE MulDigits(_, _, _)
MulDigits(s, m, carry) ==
  IF s = <<>> THEN (IF carry = 0 THEN <<>> ELSE NatToDigits(carry))
  ELSE LET t == DigitVal(s[Len(s)]) * m + carry
       IN MulDigits(SubSeq(s, 1, Len(s) - 1), m, t \div 10)
            \o <<DigitChar(t % 10)>>

\* WeiToUSD that reads the balance as 17-decimal units
WeiToUSD17(digits, priceCents) ==
  LET padded == PadLeft(digits, 18)
      n == Len(padded)
      ethWhole == DigitsToNat(SubSeq(padded, 1, n - 17))
      part == PadLeft(MulDigits(SubSeq(padded, n - 16, n), priceCents, 0), 18)
      m == Len(part)
  IN [cents |-> ethWhole * priceCents + DigitsToNat(SubSeq(part, 1, m - 17)),
      sub |-> SubSeq(part, m - 16, m) \o <<"0">>]

\* usdValue of WalletFetcher.Fetch: wei / 1e18 is the balance in ETH, a whole
\* part and 18 decimals; times the price in cents it is an amount of whole
\* cents and sub, the 18 decimals of a cent that follow.  The arithmetic is
\* exact: the rounding of big.Float and float64 is not modelled
WeiToUSD(digits, priceCents) ==
  LET padded == PadLeft(digits, 19)
      n == Len(padded)
      ethWhole == DigitsToNat(SubSeq(padded, 1, n - 18))
      part == PadLeft(MulDigits(SubSeq(padded, n - 17, n), priceCents, 0), 19)
      m == Len(part)
  IN [cents |-> ethWhole * priceCents + DigitsToNat(SubSeq(part, 1, m - 18)),
      sub |-> SubSeq(part, m - 17, m)]

\* strings.ReplaceAll(s, old, new) for a one-character old
RECURSIVE ReplaceAll(_, _, _)
ReplaceAll(s, old, new) ==
  IF s = <<>> THEN <<>>
  ELSE (IF Head(s) = old THEN new ELSE <<Head(s)>>)
         \o ReplaceAll(Tail(s), old, new)

(***************************************************************************)
(* Fetch Units.  A unit is [kind, ident]: the variant and its identifier   *)
(* (wallet address, ticker, property address).                             *)
(***************************************************************************)
WalletUnit == [kind |-> "wallet", ident |-> <<"0", "x", "A", "b">>]

StockUnit == [kind |-> "stock", ident |-> <<"A", "A", "P", "L">>]

PropertyUnit ==
  [kind |-> "valuation", ident |-> <<"1", " ", "M", "a", ",", " ", "T", "X">>]

Units == {WalletUnit, StockUnit, PropertyUnit}

\* testutil.NewMockFetcher(key, value, err): Fetch returns (value, err) at
\* once, Key returns key
NewMockFetcher(key, value, err) ==
  [kind |-> "mock", ident |-> key, value |-> value, err |-> err,
   slow |-> FALSE]

\* the slowFetcher of TestRun_ContextCancellation: Fetch returns
\* (0, ctx.Err()) once the context is done, or (100, nil) when its timer fires
slowFetcher ==
  [kind |-> "mock", ident |-> "test:slow", value |-> 100, err |-> NilErr,
   slow |-> TRUE]

\* the units of the coordinator's tests
MockUnits ==
  { NewMockFetcher("test:key1", 100, NilErr),
    NewMockFetcher("test:key2", 0, PlainErr("fetch failed")),
    slowFetcher }

\* MockFetcher.Key
MockKey(u) == u.ident

\* WalletFetcher.Key: fmt.Sprintf("fetcher:etherscan:%s", f.address)
WalletKey(u) ==
  << "f", "e", "t", "c", "h", "e", "r", ":", "e", "t", "h", "e", "r", "s",
     "c", "a", "n", ":" >> \o u.ident

\* StockFetcher.Key: fmt.Sprintf("fetcher:alphavantage:%s", f.ticker)
StockKey(u) ==
  << "f", "e", "t", "c", "h", "e", "r", ":", "a", "l", "p", "h", "a", "v",
     "a", "n", "t", "a", "g", "e", ":" >> \o u.ident

\* PropertyFetcher.Key that leaves the commas in
PropertyKeyWithCommas(u) ==
  LET addressStub == ToLower(ReplaceAll(u.ident, " ", <<"_">>))
  IN << "f", "e", "t", "c", "h", "e", "r", ":", "r", "e", "n", "t", "c",
        "a", "s", "t", ":" >> \o addressStub

\* PropertyFetcher.Key
PropertyKey(u) ==
  LET addressStub == ToLower(ReplaceAll(u.ident, " ", <<"_">>))
  IN << "f", "e", "t", "c", "h", "e", "r", ":", "r", "e", "n", "t", "c",
        "a", "s", "t", ":" >> \o ReplaceAll(addressStub, ",", <<>>)

\* Fetcher.Key, dispatched on the variant
Key(u) ==
  CASE u.kind = "wallet" -> WalletKey(u)
    [] u.kind = "stock" -> StockKey(u)
    [] u.kind = "valuation" -> PropertyKey(u)
    [] u.kind = "mock" -> MockKey(u)

\* the limiter source a variant's Fetch waits on; "none" when it waits on none
SourceOf(u) ==
  CASE u.kind \in {"wallet", "mock"} -> "none"
    [] u.kind = "stock" -> APIAlphaVantage
    [] u.kind = "valuation" -> APIRentcast

\* SetRetryCount of the unit's HTTP client: resty.New() leaves it at 0
RetryCountOf(u) == IF u.kind = "wallet" THEN 0 ELSE defaultRetryCount

(***************************************************************************)
(* HTTP.  One attempt of one request ends in a transport error or in a     *)
(* response [status, body]; body is the one field the unit reads.          *)
(***************************************************************************)
Statuses == {200, 404, 408, 429, 503}

TransportFailure(byCtx) ==
  [terr |-> TRUE, byCtx |-> byCtx, status |-> 0, body |-> <<>>]

Response(status, body) ==
  [terr |-> FALSE, byCtx |-> FALSE, status |-> status, body |-> body]

\* the request a unit issues as its call-th HTTP call
CallName(u, c) ==
  CASE u.kind = "wallet" /\ c = 1 -> "ethprice"
    [] u.kind = "wallet" /\ c = 2 -> "balance"
    [] u.kind = "stock" -> "GLOBAL_QUOTE"
    [] u.kind = "valuation" -> "avm/value"

\* the PropertyValueResponse a document decodes to, in the fields that are
\* read: price is 0 when the document has none
PropertyValueResponse(price, priceRangeLow) ==
  [price |-> price, priceRangeLow |-> priceRangeLow]

\* the contents a 2xx response may carry in the field the call reads
Bodies(name) ==
  CASE name = "ethprice" ->
         {<<>>, <<"a", "b">>, <<"2", "0", "0", "0", ".", "5", "0">>}
    [] name = "balance" ->
         {<<>>, <<"x", "y">>,
          <<"1", "0", "0", "0", "0", "0", "0", "0", "0", "0",
            "0", "0", "0", "0", "0", "0", "0", "0", "0">>}
    [] name = "GLOBAL_QUOTE" ->
         {<<>>, <<"a", "b">>, <<"1", "7", "8", ".", "2", "3">>}
    [] name = "avm/value" ->
         {PropertyValueResponse(0, 0),
          PropertyValueResponse(25000000, 24000000)}

\* what one attempt may end in: with the context done the transport fails
\* with the context's error
Outcomes(name, done) ==
  IF done THEN {TransportFailure(TRUE)}
  ELSE {TransportFailure(FALSE)}
         \cup {Response(200, b) : b \in Bodies(name)}
         \cup {Response(st, IF name = "avm/value"
                                THEN PropertyValueResponse(0, 0)
                                ELSE <<>>) :
                 st \in Statuses \ {200}}

\* resty Response.IsSuccess
IsSuccess(status) == status > 199 /\ status < 300

\* retryCondition that also retries a 200
retryConditionAlso200(r) ==
  IF r.terr THEN TRUE
  ELSE IF r.status >= 500 THEN TRUE
  ELSE IF r.status = 429 THEN TRUE
  ELSE IF r.status = 408 THEN TRUE
  ELSE IF r.status = 200 THEN TRUE
  ELSE FALSE

\* retryCondition without its request timeout arm
retryConditionNo408(r) ==
  IF r.terr THEN TRUE
  ELSE IF r.status >= 500 THEN TRUE
  ELSE IF r.status = 429 THEN TRUE
  ELSE FALSE

\* retryCondition(r, err)
retryCondition(r) ==
  IF r.terr THEN TRUE
  ELSE IF r.status >= 500 THEN TRUE
  ELSE IF r.status = 429 THEN TRUE
  ELSE IF r.status = 408 THEN TRUE
  ELSE FALSE

\* the retry conditions installed on the unit's client
NeedsRetry(u, r) == IF u.kind = "wallet" THEN FALSE ELSE retryCondition(r)

\* AfterAttempt that does not look at the context before it retries
AfterAttemptIgnoresContext(u, a, r, done) ==
  IF a - 1 = RetryCountOf(u) THEN "break"
  ELSE IF NeedsRetry(u, r) THEN "retry"
  ELSE "break"

\* AfterAttempt that gives up one attempt early
AfterAttemptOneShort(u, a, r, done) ==
  IF r.terr /\ done THEN "break"
  ELSE IF a = RetryCountOf(u) THEN "break"
  ELSE IF NeedsRetry(u, r) THEN "retry"
  ELSE "break"

\* the request loop of the unit's client after attempt number a ended in r:
\* "break" ends the call with r, "retry" waits the backoff and re-attempts
AfterAttempt(u, a, r, done) ==
  IF r.terr /\ done THEN "break"
  ELSE IF a - 1 = RetryCountOf(u) THEN "break"
  ELSE IF NeedsRetry(u, r) THEN "retry"
  ELSE "break"

(***************************************************************************)
(* What each variant's Fetch makes of the outcome r of its HTTP call.      *)
(* A return is [value, err, next]: next is TRUE when Fetch goes on to its  *)
(* next call instead of returning.                                         *)
(***************************************************************************)
Return(value, err) == [value |-> value, err |-> err, next |-> FALSE]

TransportCause(r) == IF r.byCtx THEN "ctx" ELSE "transport"

\* StockFetcher.Fetch after client.R()...Get("")
StockFetchReturn(r) ==
  IF r.terr THEN Return(0, NewNetworkError(TransportCause(r)))
  ELSE IF ~IsSuccess(r.status)
  THEN Return(0, WrapFetchError(ClassifyHTTPError(r.status)))
  ELSE IF r.body = <<>> THEN Return(0, NewValidationError)
  ELSE LET price == ParseFloat(r.body)
       IN IF ~price.ok THEN Return(0, NewValidationError)
          ELSE Return(price.v, NilErr)

\* PropertyFetchReturn without the check of the price
PropertyFetchReturnUnchecked(r) ==
  IF r.terr THEN Return(0, NewNetworkError(TransportCause(r)))
  ELSE IF ~IsSuccess(r.status)
  THEN Return(0, WrapFetchError(ClassifyHTTPError(r.status)))
  ELSE Return(r.body.price, NilErr)

\* PropertyFetcher.Fetch after client.R()...Get("/avm/value")
PropertyFetchReturn(r) ==
  IF r.terr THEN Return(0, NewNetworkError(TransportCause(r)))
  ELSE IF ~IsSuccess(r.status)
  THEN Return(0, WrapFetchError(ClassifyHTTPError(r.status)))
  ELSE IF r.body.price = 0 THEN Return(0, NewValidationError)
  ELSE Return(r.body.price, NilErr)

\* f.lastResponse after that Fetch, a pointer being <<>> for nil and
\* <<result>> for &result, which stores the response on every return
StoreLastResponseAlways(r, last) ==
  IF r.terr THEN last ELSE <<r.body>>

\* f.lastResponse after that Fetch: &result once the price was found
StoreLastResponse(r, last) ==
  IF PropertyFetchReturn(r).err = NilErr THEN <<r.body>> ELSE last

\* fetchEthPrice whose caller goes on to the balance request after a failure
fetchEthPriceUnchecked(r) ==
  IF r.terr \/ ~IsSuccess(r.status) \/ r.body = <<>>
  THEN [value |-> 0, err |-> NilErr, next |-> TRUE]
  ELSE LET price == ParseFloat(r.body)
       IN [value |-> price.v, err |-> NilErr, next |-> TRUE]

\* WalletFetcher.fetchEthPrice and the check of its result in Fetch
fetchEthPrice(r) ==
  IF r.terr THEN Return(0, PlainErr("failed to fetch ETH price"))
  ELSE IF ~IsSuccess(r.status)
  THEN Return(0, PlainErr("etherscan API returned status"))
  ELSE IF r.body = <<>> THEN Return(0, PlainErr("ETH price not found"))
  ELSE LET price == ParseFloat(r.body)
       IN IF ~price.ok THEN Return(0, PlainErr("failed to parse ETH price"))
          ELSE [value |-> price.v, err |-> NilErr, next |-> TRUE]

\* WalletFetcher.Fetch after the balance request
WalletFetchReturn(r, price) ==
  IF r.terr THEN Return(0, PlainErr("failed to fetch wallet balance"))
  ELSE IF ~IsSuccess(r.status)
  THEN Return(0, PlainErr("etherscan API returned status"))
  ELSE IF r.body = <<>> THEN Return(0, PlainErr("balance not found"))
  ELSE LET weiBalance == BigIntSetString(r.body)
       IN IF ~weiBalance.ok THEN Return(0, PlainErr("failed to parse balance"))
          ELSE Return(WeiToUSD(weiBalance.digits, price), NilErr)

\* Fetch of unit u after its call-th HTTP call ended in r
FetchReturn(u, c, r, price) ==
  CASE u.kind = "stock" -> StockFetchReturn(r)
    [] u.kind = "valuation" -> PropertyFetchReturn(r)
    [] u.kind = "wallet" /\ c = 1 -> fetchEthPrice(r)
    [] u.kind = "wallet" /\ c = 2 -> WalletFetchReturn(r, price)

\* MockFetcher.Fetch: what m.FetchFunc(ctx) can return now
MockFetchReturns(u, done) ==
  IF ~u.slow THEN {Return(u.value, u.err)}
  ELSE {Return(u.value, NilErr)}
         \cup (IF done THEN {Return(0, CtxErr)} ELSE {})

(***************************************************************************)
(* State.                                                                  *)
(***************************************************************************)
VARIABLES
  fetchers,       \* Coordinator.fetchers: the unit list given to New
  testMode,       \* isTestMode() || GO_TESTING = 1, fixed for the process
  ctxDone,        \* the run's context is cancelled or past its deadline
  mainPc,         \* position of Coordinator.Run
  launched,       \* units whose goroutine the launch loop has started
  runErr,         \* the error Run returned
  wg,             \* the WaitGroup counter
  closerPc,       \* position of the closing goroutine
  resultChan,     \* the buffered results of the channel, oldest first
  chanClosed,     \* close(resultChan) has happened
  panicked,       \* a goroutine sent on the closed channel
  consumed,       \* the results the drain loop has received, in order
  wpc,            \* position of each unit's goroutine
  call,           \* which HTTP call of its Fetch a unit is at
  attempt,        \* the attempt number of that call (Request.Attempt)
  ethUSD,         \* the price a wallet Fetch got from fetchEthPrice
  ret,            \* what each unit's Fetch returned
  lastResponse,   \* PropertyFetcher.lastResponse: <<>> for nil, <<result>>
  initialized,    \* once.Do in GetLimiter has run
  tokens,         \* Limiter.limiters: tokens available per registered source
  invoked,        \* history: how often each unit's Fetch was invoked
  reqs,           \* history: the HTTP attempts each unit has issued
  waited,         \* history: the unit's Limiter.Wait returned nil
  pendingAtDone,  \* history: units whose Fetch had not returned when the
                  \* context became done
  lastOutcome,    \* history: what a unit's latest HTTP call returned to
                  \* Fetch: the outcome of its last attempt, or the
                  \* context's error that ended a retry wait
  retried404,     \* history: the unit's client retried after a 404 answer
  calls,          \* the direct calls of Limiter.Wait and Limiter.Allow
  elapsed,        \* token periods (1/rate seconds) elapsed per source
  arg,            \* the input a function under check is applied to
  out,            \* the value that function returned
  deposited       \* the units whose result was sent on the channel, in order

vars ==
  << fetchers, testMode, ctxDone, mainPc, launched, runErr, wg, closerPc,
     resultChan, chanClosed, panicked, consumed, wpc, call, attempt, ethUSD,
     ret, lastResponse, initialized, tokens, invoked, reqs, waited,
     pendingAtDone, lastOutcome, retried404, calls, elapsed, arg, out,
     deposited >>

coordVars ==
  << mainPc, launched, runErr, wg, closerPc, resultChan, chanClosed,
     panicked, consumed, deposited >>

httpVars ==
  << call, attempt, ethUSD, lastResponse, reqs, waited, lastOutcome,
     retried404 >>

limiterVars == << initialized, tokens >>

\* the inputs and outputs of the functions checked on their own
fnVars == << arg, out >>

\* the state that only LimiterSpec and PolicySpec change
sideVars == << calls, elapsed, fnVars >>

N == Len(fetchers)

Workers == 1..N

\* no HTTP call of the unit has returned yet
NoOutcome == [terr |-> FALSE, byCtx |-> FALSE, status |-> -1]

\* what the retry policy and the classification read of the outcome r of an
\* attempt: the transport error and the status code
Signal(r) == [terr |-> r.terr, byCtx |-> r.byCtx, status |-> r.status]

NoReturn == [value |-> 0, err |-> [kind |-> "unset"], next |-> FALSE]

\* the lists of at most n units of the set U
RECURSIVE UnitLists(_, _)
UnitLists(U, n) ==
  IF n = 0 THEN {<<>>}
  ELSE UnitLists(U, n - 1)
         \cup {Append(l, u) :
                 l \in {x \in UnitLists(U, n - 1) : Len(x) = n - 1}, u \in U}

\* the state every specification starts from, but for the unit list and the
\* position of the units
Fresh ==
  /\ ctxDone = FALSE
  /\ mainPc = "start"
  /\ launched = 0
  /\ runErr = "unset"
  /\ wg = 0
  /\ closerPc = "none"
  /\ resultChan = <<>>
  /\ chanClosed = FALSE
  /\ panicked = FALSE
  /\ consumed = <<>>
  /\ deposited = <<>>
  /\ call = [i \in Workers |-> 0]
  /\ attempt = [i \in Workers |-> 0]
  /\ ethUSD = [i \in Workers |-> 0]
  /\ ret = [i \in Workers |-> NoReturn]
  /\ lastResponse = [i \in Workers |-> <<>>]
  /\ initialized = FALSE
  /\ tokens = [a \in {} |-> 0]
  /\ invoked = [i \in Workers |-> 0]
  /\ reqs = [i \in Workers |-> <<>>]
  /\ waited = [i \in Workers |-> FALSE]
  /\ pendingAtDone = {}
  /\ lastOutcome = [i \in Workers |-> NoOutcome]
  /\ retried404 = [i \in Workers |-> FALSE]

\* no direct call of the limiter, no time elapsed
NoCalls ==
  /\ calls = <<>>
  /\ elapsed = [a \in RegisteredAPIs |-> 0]

\* no function applied on its own
NoFn ==
  /\ arg = "none"
  /\ out = [fn |-> "none"]

\* coordinator.New(fetchers), before Run
Init ==
  /\ fetchers \in UnitLists(MockUnits, MaxUnits)
  /\ testMode = TRUE
  /\ wpc = [i \in Workers |-> "idle"]
  /\ Fresh
  /\ NoCalls
  /\ NoFn

(***************************************************************************)
(* The context.                                                            *)
(***************************************************************************)
\* the positions at which a unit's Fetch has not returned yet
InFetch == {"idle", "run", "fetch", "wait", "http", "backoff"}

\* cancel() by the caller, or the deadline passing
Cancel ==
  /\ ~ctxDone
  /\ mainPc # "returned"
  /\ ctxDone' = TRUE
  /\ pendingAtDone' = {i \in Workers : wpc[i] \in InFetch}
  /\ UNCHANGED << sideVars, fetchers, testMode,
                  coordVars, wpc, httpVars, ret, invoked,
                  limiterVars >>

(***************************************************************************)
(* Coordinator.Run.                                                        *)
(***************************************************************************)
\* if len(c.fetchers) == 0 { return fmt.Errorf("no fetchers configured") }
RunEmpty ==
  /\ mainPc = "start"
  /\ N = 0
  /\ mainPc' = "returned"
  /\ runErr' = "no fetchers configured"
  /\ UNCHANGED << sideVars, fetchers, testMode, ctxDone, launched, wg,
                  closerPc, resultChan, chanClosed, panicked, consumed,
                  deposited, wpc, httpVars, ret, invoked, limiterVars,
                  pendingAtDone >>

\* RunStart without the check for an empty list
RunStartUnchecked ==
  /\ mainPc = "start"
  /\ mainPc' = "launch"
  /\ UNCHANGED << sideVars, fetchers, testMode, ctxDone, launched, runErr, wg,
                  closerPc, resultChan, chanClosed, panicked, consumed,
                  deposited, wpc, httpVars, ret, invoked, limiterVars,
                  pendingAtDone >>

\* resultChan := make(chan fetcher.Result, len(c.fetchers))
RunStart ==
  /\ mainPc = "start"
  /\ N # 0
  /\ mainPc' = "launch"
  /\ UNCHANGED << sideVars, fetchers, testMode, ctxDone, launched, runErr, wg,
                  closerPc, resultChan, chanClosed, panicked, consumed,
                  deposited, wpc, httpVars, ret, invoked, limiterVars,
                  pendingAtDone >>

\* Launch that starts a unit once the Fetch of the one before has returned
LaunchAfterPrevious ==
  /\ mainPc = "launch"
  /\ launched < N
  /\ IF launched = 0 THEN TRUE ELSE wpc[launched] \notin InFetch
  /\ wg' = wg + 1
  /\ launched' = launched + 1
  /\ wpc' = [wpc EXCEPT ![launched + 1] = "run"]
  /\ UNCHANGED << sideVars, fetchers, testMode,
                  ctxDone, mainPc, runErr, closerPc,
                  resultChan, chanClosed, panicked, consumed, deposited,
                  httpVars, ret, invoked, limiterVars, pendingAtDone >>

\* one iteration of the launch loop: wg.Add(1); go func(ft) {...}(f)
Launch ==
  /\ mainPc = "launch"
  /\ launched < N
  /\ wg' = wg + 1
  /\ launched' = launched + 1
  /\ wpc' = [wpc EXCEPT ![launched + 1] = "run"]
  /\ UNCHANGED << sideVars, fetchers, testMode, ctxDone, mainPc, runErr,
                  closerPc, resultChan, chanClosed, panicked, consumed,
                  deposited, httpVars, ret, invoked, limiterVars,
                  pendingAtDone >>

\* go func() { wg.Wait(); close(resultChan) }()
SpawnCloser ==
  /\ mainPc = "launch"
  /\ launched = N
  /\ closerPc' = "waiting"
  /\ mainPc' = "drain"
  /\ UNCHANGED << sideVars, fetchers, testMode, ctxDone, launched, runErr, wg,
                  resultChan, chanClosed, panicked, consumed, deposited, wpc,
                  httpVars, ret, invoked, limiterVars, pendingAtDone >>

\* CloserClose that does not wait for the WaitGroup
CloserCloseEarly ==
  /\ closerPc = "waiting"
  /\ closerPc' = "closed"
  /\ chanClosed' = TRUE
  /\ UNCHANGED << sideVars, fetchers, testMode, ctxDone, mainPc, launched,
                  runErr, wg, resultChan, panicked, consumed, deposited, wpc,
                  httpVars, ret, invoked, limiterVars, pendingAtDone >>

\* wg.Wait() returns; close(resultChan)
CloserClose ==
  /\ closerPc = "waiting"
  /\ wg = 0
  /\ closerPc' = "closed"
  /\ chanClosed' = TRUE
  /\ UNCHANGED << sideVars, fetchers, testMode, ctxDone, mainPc, launched,
                  runErr, wg, resultChan, panicked, consumed, deposited, wpc,
                  httpVars, ret, invoked, limiterVars, pendingAtDone >>

\* DrainRecv that takes the result deposited last
DrainRecvNewest ==
  /\ mainPc = "drain"
  /\ resultChan # <<>>
  /\ consumed' = Append(consumed, resultChan[Len(resultChan)])
  /\ resultChan' = SubSeq(resultChan, 1, Len(resultChan) - 1)
  /\ UNCHANGED << sideVars, fetchers, testMode,
                  ctxDone, mainPc, launched, runErr, wg,
                  closerPc, chanClosed, panicked, deposited, wpc, httpVars,
                  ret, invoked, limiterVars, pendingAtDone >>

\* for result := range resultChan: one result received and printed
DrainRecv ==
  /\ mainPc = "drain"
  /\ resultChan # <<>>
  /\ consumed' = Append(consumed, Head(resultChan))
  /\ resultChan' = Tail(resultChan)
  /\ UNCHANGED << sideVars, fetchers, testMode,
                  ctxDone, mainPc, launched, runErr, wg,
                  closerPc, chanClosed, panicked, deposited, wpc, httpVars,
                  ret, invoked, limiterVars, pendingAtDone >>

\* DrainEnd that stops at an empty channel without waiting for its close
DrainEndEarly ==
  /\ mainPc = "drain"
  /\ resultChan = <<>>
  /\ mainPc' = "returned"
  /\ runErr' = "nil"
  /\ UNCHANGED << sideVars, fetchers, testMode, ctxDone, launched, wg,
                  closerPc, resultChan, chanClosed, panicked, consumed,
                  deposited, wpc, httpVars, ret, invoked, limiterVars,
                  pendingAtDone >>

\* DrainEnd that returns ctx.Err() instead of nil
DrainEndCtxErr ==
  /\ mainPc = "drain"
  /\ resultChan = <<>>
  /\ chanClosed
  /\ mainPc' = "returned"
  /\ runErr' = IF ctxDone THEN "context canceled" ELSE "nil"
  /\ UNCHANGED << sideVars, fetchers, testMode, ctxDone, launched, wg,
                  closerPc, resultChan, chanClosed, panicked, consumed,
                  deposited, wpc, httpVars, ret, invoked, limiterVars,
                  pendingAtDone >>

\* DrainEnd that returns as soon as the channel is closed
DrainEndOnClose ==
  /\ mainPc = "drain"
  /\ chanClosed
  /\ mainPc' = "returned"
  /\ runErr' = "nil"
  /\ UNCHANGED << sideVars, fetchers, testMode, ctxDone, launched, wg,
                  closerPc, resultChan, chanClosed, panicked, consumed,
                  deposited, wpc, httpVars, ret, invoked, limiterVars,
                  pendingAtDone >>

\* the range loop ends on the closed, empty channel; return nil
DrainEnd ==
  /\ mainPc = "drain"
  /\ resultChan = <<>>
  /\ chanClosed
  /\ mainPc' = "returned"
  /\ runErr' = "nil"
  /\ UNCHANGED << sideVars, fetchers, testMode, ctxDone, launched, wg,
                  closerPc, resultChan, chanClosed, panicked, consumed,
                  deposited, wpc, httpVars, ret, invoked, limiterVars,
                  pendingAtDone >>

(***************************************************************************)
(* The worker goroutine of unit i: ft.Fetch(ctx), the send, wg.Done().     *)
(***************************************************************************)
\* FetchCall of a worker that may call Fetch a second time
FetchCallRepeated(i) ==
  /\ wpc[i] \in {"run", "fetch"}
  /\ invoked[i] < 2
  /\ wpc' = [wpc EXCEPT ![i] = "fetch"]
  /\ invoked' = [invoked EXCEPT ![i] = @ + 1]
  /\ UNCHANGED << sideVars, fetchers, testMode,
                  ctxDone, coordVars, httpVars, ret,
                  limiterVars, pendingAtDone >>

\* value, err := ft.Fetch(ctx): the call is made
FetchCall(i) ==
  /\ wpc[i] = "run"
  /\ wpc' = [wpc EXCEPT ![i] = "fetch"]
  /\ invoked' = [invoked EXCEPT ![i] = @ + 1]
  /\ UNCHANGED << sideVars, fetchers, testMode,
                  ctxDone, coordVars, httpVars, ret,
                  limiterVars, pendingAtDone >>

\* MockFetcher.Fetch returns
MockFetch(i) ==
  /\ wpc[i] = "fetch"
  /\ fetchers[i].kind = "mock"
  /\ \E fr \in MockFetchReturns(fetchers[i], ctxDone) :
       ret' = [ret EXCEPT ![i] = fr]
  /\ wpc' = [wpc EXCEPT ![i] = "send"]
  /\ UNCHANGED << sideVars, fetchers, testMode,
                  ctxDone, coordVars, httpVars, invoked,
                  limiterVars, pendingAtDone >>

\* ResultOf whose goroutine reads the loop variable of the launch loop
\* instead of its own parameter ft
ResultOfLoopVariable(i) ==
  [Key |-> Key(fetchers[IF launched = 0 THEN 1 ELSE launched]),
   Value |-> ret[i].value, Error |-> ret[i].err, unit |-> i]

\* the Result the worker of unit i builds; unit is a history field naming
\* the worker that built it
ResultOf(i) ==
  [Key |-> Key(fetchers[i]), Value |-> ret[i].value, Error |-> ret[i].err,
   unit |-> i]

\* Send that drops the result of a unit when a sibling's Fetch has failed
SendUnlessSiblingFailed(i) ==
  /\ wpc[i] = "send"
  /\ chanClosed \/ Len(resultChan) < N
  /\ IF chanClosed
     THEN /\ panicked' = TRUE
          /\ UNCHANGED << resultChan, deposited >>
     ELSE /\ IF \E j \in Workers \ {i} :
                  ret[j].err \notin {NilErr, NoReturn.err}
             THEN UNCHANGED << resultChan, deposited >>
             ELSE /\ resultChan' = Append(resultChan, ResultOf(i))
                  /\ deposited' = Append(deposited, i)
          /\ UNCHANGED panicked
  /\ wpc' = [wpc EXCEPT ![i] = "done"]
  /\ UNCHANGED << sideVars, fetchers, testMode,
                  ctxDone, mainPc, launched, runErr, wg,
                  closerPc, chanClosed, consumed, httpVars, ret, invoked,
                  limiterVars, pendingAtDone >>

\* Send on a channel made with room for N - 1 results
SendSmallBuffer(i) ==
  /\ wpc[i] = "send"
  /\ chanClosed \/ Len(resultChan) < N - 1
  /\ IF chanClosed
     THEN /\ panicked' = TRUE
          /\ UNCHANGED << resultChan, deposited >>
     ELSE /\ resultChan' = Append(resultChan, ResultOf(i))
          /\ deposited' = Append(deposited, i)
          /\ UNCHANGED panicked
  /\ wpc' = [wpc EXCEPT ![i] = "done"]
  /\ UNCHANGED << sideVars, fetchers, testMode,
                  ctxDone, mainPc, launched, runErr, wg,
                  closerPc, chanClosed, consumed, httpVars, ret, invoked,
                  limiterVars, pendingAtDone >>

\* resultChan <- fetcher.Result{Key: ft.Key(), Value: value, Error: err};
\* it blocks while the buffer is full and panics on a closed channel
Send(i) ==
  /\ wpc[i] = "send"
  /\ chanClosed \/ Len(resultChan) < N
  /\ IF chanClosed
     THEN /\ panicked' = TRUE
          /\ UNCHANGED << resultChan, deposited >>
     ELSE /\ resultChan' = Append(resultChan, ResultOf(i))
          /\ deposited' = Append(deposited, i)
          /\ UNCHANGED panicked
  /\ wpc' = [wpc EXCEPT ![i] = "done"]
  /\ UNCHANGED << sideVars, fetchers, testMode,
                  ctxDone, mainPc, launched, runErr, wg,
                  closerPc, chanClosed, consumed, httpVars, ret, invoked,
                  limiterVars, pendingAtDone >>

\* a worker that exits without wg.Done()
WgDoneForgotten(i) ==
  /\ wpc[i] = "done"
  /\ wpc' = [wpc EXCEPT ![i] = "exit"]
  /\ UNCHANGED << sideVars, fetchers, testMode, ctxDone, mainPc, launched,
                  runErr, wg, closerPc, resultChan, chanClosed, panicked,
                  consumed, deposited, httpVars, ret, invoked, limiterVars,
                  pendingAtDone >>

\* defer wg.Done()
WgDone(i) ==
  /\ wpc[i] = "done"
  /\ wg' = wg - 1
  /\ wpc' = [wpc EXCEPT ![i] = "exit"]
  /\ UNCHANGED << sideVars, fetchers, testMode, ctxDone, mainPc, launched,
                  runErr, closerPc, resultChan, chanClosed, panicked,
                  consumed, deposited, httpVars, ret, invoked, limiterVars,
                  pendingAtDone >>

\* the goroutine the launch loop starts for unit i; there is none beyond the
\* end of the list
Worker(i) ==
  /\ i \in Workers
  /\ (FetchCall(i) \/ MockFetch(i) \/ Send(i) \/ WgDone(i))

Main == RunEmpty \/ RunStart \/ Launch \/ SpawnCloser \/ DrainRecv \/ DrainEnd

Next ==
  \/ Cancel
  \/ Main
  \/ CloserClose
  \/ \E i \in Workers : FetchCall(i)
  \/ \E i \in Workers : MockFetch(i)
  \/ \E i \in Workers : Send(i)
  \/ \E i \in Workers : WgDone(i)

\* one Coordinator.Run over a list of mock units
Spec == Init /\ [][Next]_vars

\* the Go scheduler runs every runnable goroutine and timers fire; nothing
\* obliges the caller to cancel
FairSpec ==
  /\ Spec
  /\ WF_vars(Main)
  /\ WF_vars(CloserClose)
  /\ \A i \in 1..MaxUnits : WF_vars(Worker(i))

(***************************************************************************)
(* The rate limiter.                                                       *)
(***************************************************************************)
\* Limiter.initLimiters: every source gets rate.NewLimiter(r, 1), which
\* starts with a full bucket of burst tokens
initLimiters == [a \in RegisteredAPIs |-> Burst]

\* WaitOutcomes that looks at the context before it looks the source up
WaitOutcomesContextFirst(api, done, bucket, inf) ==
  IF done THEN {"ctx"}
  ELSE IF api \notin DOMAIN bucket THEN {"nil"}
  ELSE IF inf \/ bucket[api] > 0 THEN {"nil"}
  ELSE {}

\* WaitOutcomes that grants from an empty bucket
WaitOutcomesOverdraw(api, done, bucket, inf) ==
  IF api \notin DOMAIN bucket THEN {"nil"}
  ELSE IF done THEN {"ctx"}
  ELSE {"nil"}

\* what Limiter.Wait(ctx, api) can return now; no element: it blocks.
\* rate.Limiter.Wait returns ctx.Err() for a done context before it looks at
\* the bucket, and with rate.Inf it grants at once
WaitOutcomes(api, done, bucket, inf) ==
  IF api \notin DOMAIN bucket THEN {"nil"}
  ELSE IF done THEN {"ctx"}
  ELSE IF inf \/ bucket[api] > 0 THEN {"nil"}
  ELSE {}

\* Take that draws on every bucket
TakeFromEvery(api, bucket, inf) ==
  IF api \in DOMAIN bucket /\ ~inf
  THEN [a \in DOMAIN bucket |-> bucket[a] - 1]
  ELSE bucket

\* Take that registers a source it does not find
TakeRegistering(api, bucket, inf) ==
  IF api \notin DOMAIN bucket
  THEN [a \in DOMAIN bucket \cup {api} |->
          IF a = api THEN Burst ELSE bucket[a]]
  ELSE IF ~inf THEN [bucket EXCEPT ![api] = @ - 1]
  ELSE bucket

\* the bucket after a token of api was granted
Take(api, bucket, inf) ==
  IF api \in DOMAIN bucket /\ ~inf
  THEN [bucket EXCEPT ![api] = @ - 1]
  ELSE bucket

\* Fetch of a stock or valuation unit starts: limiter := ratelimit.GetLimiter()
GetLimiter(i) ==
  /\ wpc[i] = "fetch"
  /\ fetchers[i].kind \in {"stock", "valuation"}
  /\ initialized' = TRUE
  /\ tokens' = IF initialized THEN tokens ELSE initLimiters
  /\ wpc' = [wpc EXCEPT ![i] = "wait"]
  /\ UNCHANGED << sideVars, fetchers, testMode,
                  ctxDone, coordVars, httpVars, ret,
                  invoked, pendingAtDone >>

\* Fetch that goes on to its request though limiter.Wait returned an error
LimiterWaitErrorIgnored(i) ==
  /\ wpc[i] = "wait"
  /\ LET api == SourceOf(fetchers[i])
     IN \E o \in WaitOutcomes(api, ctxDone, tokens, testMode) :
          /\ tokens' = IF o = "nil" THEN Take(api, tokens, testMode)
                       ELSE tokens
          /\ waited' = [waited EXCEPT ![i] = (o = "nil")]
          /\ wpc' = [wpc EXCEPT ![i] = "http"]
          /\ call' = [call EXCEPT ![i] = 1]
          /\ attempt' = [attempt EXCEPT ![i] = 1]
          /\ UNCHANGED ret
  /\ UNCHANGED << sideVars, fetchers, testMode, ctxDone, coordVars, ethUSD,
                  lastResponse, reqs, invoked, initialized, pendingAtDone,
                  lastOutcome, retried404 >>

\* limiter.Wait(ctx, api) returns: nil with a token taken, or the context's
\* error, which Fetch returns as NewTimeoutError(err)
LimiterWait(i) ==
  /\ wpc[i] = "wait"
  /\ LET api == SourceOf(fetchers[i])
     IN \E o \in WaitOutcomes(api, ctxDone, tokens, testMode) :
          IF o = "nil"
          THEN /\ tokens' = Take(api, tokens, testMode)
               /\ waited' = [waited EXCEPT ![i] = TRUE]
               /\ wpc' = [wpc EXCEPT ![i] = "http"]
               /\ call' = [call EXCEPT ![i] = 1]
               /\ attempt' = [attempt EXCEPT ![i] = 1]
               /\ UNCHANGED ret
          ELSE /\ ret' = [ret EXCEPT ![i] = Return(0, NewTimeoutError("ctx"))]
               /\ wpc' = [wpc EXCEPT ![i] = "send"]
               /\ UNCHANGED << tokens, waited, call, attempt >>
  /\ UNCHANGED << sideVars, fetchers, testMode, ctxDone, coordVars, ethUSD,
                  lastResponse, reqs, invoked, initialized, pendingAtDone,
                  lastOutcome, retried404 >>

\* rate.Limiter.Wait with an empty bucket and a context whose deadline is
\* nearer than the next token: "would exceed context deadline", at once
WaitExceedsDeadline(i) ==
  /\ wpc[i] = "wait"
  /\ ~ctxDone
  /\ WaitOutcomes(SourceOf(fetchers[i]), ctxDone, tokens, testMode) = {}
  /\ ret' = [ret EXCEPT ![i] = Return(0, NewTimeoutError("limit"))]
  /\ wpc' = [wpc EXCEPT ![i] = "send"]
  /\ UNCHANGED << sideVars, fetchers, testMode,
                  ctxDone, coordVars, httpVars, invoked,
                  limiterVars, pendingAtDone >>

\* a token period of a source passes: its bucket regains a token, up to its
\* burst
Refill(api) ==
  /\ initialized
  /\ ~testMode
  /\ tokens[api] < Burst
  /\ tokens' = [tokens EXCEPT ![api] = @ + 1]
  /\ elapsed' = [elapsed EXCEPT ![api] = @ + 1]
  /\ UNCHANGED << calls, fnVars, fetchers, testMode,
                  ctxDone, coordVars, wpc, httpVars, ret,
                  invoked, initialized, pendingAtDone >>

(***************************************************************************)
(* Fetch of the wallet, stock and valuation units.  At "send" the Fetch of *)
(* the unit has returned ret[i] to its caller.                             *)
(***************************************************************************)
\* Fetch of a wallet unit starts: fetchEthPrice builds the price request
WalletBegin(i) ==
  /\ wpc[i] = "fetch"
  /\ fetchers[i].kind = "wallet"
  /\ wpc' = [wpc EXCEPT ![i] = "http"]
  /\ call' = [call EXCEPT ![i] = 1]
  /\ attempt' = [attempt EXCEPT ![i] = 1]
  /\ UNCHANGED << sideVars, fetchers, testMode,
                  ctxDone, coordVars, ethUSD, ret,
                  lastResponse, reqs, waited, invoked, limiterVars,
                  pendingAtDone, lastOutcome, retried404 >>

\* Fetch returns fr to its caller after its last request ended in r
FetchReturns(i, r, fr) ==
  /\ ret' = [ret EXCEPT ![i] = Return(fr.value, fr.err)]
  /\ lastResponse' =
       IF fetchers[i].kind = "valuation"
       THEN [lastResponse EXCEPT ![i] = StoreLastResponse(r, @)]
       ELSE lastResponse
  /\ wpc' = [wpc EXCEPT ![i] = "send"]
  /\ call' = [call EXCEPT ![i] = 0]
  /\ attempt' = [attempt EXCEPT ![i] = 0]
  /\ ethUSD' = [ethUSD EXCEPT ![i] = 0]

\* one attempt of the current HTTP call ends in r; the client retries or the
\* call returns and Fetch goes on
HttpAttempt(i) ==
  /\ wpc[i] = "http"
  /\ LET u == fetchers[i]
         name == CallName(u, call[i])
     IN /\ reqs' = [reqs EXCEPT ![i] = Append(@, name)]
        /\ \E r \in Outcomes(name, ctxDone) :
             IF AfterAttempt(u, attempt[i], r, ctxDone) = "retry"
             THEN /\ wpc' = [wpc EXCEPT ![i] = "backoff"]
                  /\ retried404' =
                       [retried404 EXCEPT
                          ![i] = @ \/ (~r.terr /\ r.status = 404)]
                  /\ UNCHANGED << call, attempt, ethUSD, ret, lastResponse,
                                  lastOutcome >>
             ELSE LET fr == FetchReturn(u, call[i], r, ethUSD[i])
                  IN /\ lastOutcome' = [lastOutcome EXCEPT ![i] = Signal(r)]
                     /\ UNCHANGED retried404
                     /\ IF fr.next
                        THEN /\ ethUSD' = [ethUSD EXCEPT ![i] = fr.value]
                             /\ call' = [call EXCEPT ![i] = @ + 1]
                             /\ attempt' = [attempt EXCEPT ![i] = 1]
                             /\ UNCHANGED << wpc, ret, lastResponse >>
                        ELSE FetchReturns(i, r, fr)
  /\ UNCHANGED << sideVars, fetchers, testMode,
                  ctxDone, coordVars, waited, invoked,
                  limiterVars, pendingAtDone >>

\* the retry wait ends by its timer: the next attempt starts
BackoffEnd(i) ==
  /\ wpc[i] = "backoff"
  /\ wpc' = [wpc EXCEPT ![i] = "http"]
  /\ attempt' = [attempt EXCEPT ![i] = @ + 1]
  /\ UNCHANGED << sideVars, fetchers, testMode,
                  ctxDone, coordVars, call, ethUSD, ret,
                  lastResponse, reqs, waited, invoked, limiterVars,
                  pendingAtDone, lastOutcome, retried404 >>

\* the retry wait ends by the context: the call returns the context's error
BackoffCancelled(i) ==
  /\ wpc[i] = "backoff"
  /\ ctxDone
  /\ FetchReturns(i, TransportFailure(TRUE),
                  FetchReturn(fetchers[i], call[i], TransportFailure(TRUE),
                              ethUSD[i]))
  /\ lastOutcome' =
       [lastOutcome EXCEPT ![i] = Signal(TransportFailure(TRUE))]
  /\ UNCHANGED << sideVars, fetchers, testMode,
                  ctxDone, coordVars, reqs, waited,
                  invoked, limiterVars, pendingAtDone, retried404 >>

Fetch(i) ==
  \/ FetchCall(i)
  \/ WalletBegin(i)
  \/ GetLimiter(i)
  \/ LimiterWait(i)
  \/ WaitExceedsDeadline(i)
  \/ HttpAttempt(i)
  \/ BackoffEnd(i)
  \/ BackoffCancelled(i)

\* main appends the wallet units, then the stock units, then the valuation
\* units of the configuration: the position of a variant in the list
VariantOrder(u) ==
  CASE u.kind = "wallet" -> 1
    [] u.kind = "stock" -> 2
    [] u.kind = "valuation" -> 3

\* the lists of at most n units that main builds from a configuration
ConfiguredFetchers(n) ==
  {l \in UnitLists(Units, n) :
     \A j \in 1..(Len(l) - 1) : VariantOrder(l[j]) <= VariantOrder(l[j + 1])}

\* units of the three variants, each about to have its Fetch called once with
\* the shared context
FetchInit ==
  /\ fetchers \in ConfiguredFetchers(MaxFetchers) \ {<<>>}
  /\ testMode \in BOOLEAN
  /\ wpc = [i \in Workers |-> "run"]
  /\ Fresh
  /\ NoCalls
  /\ NoFn

FetchNext ==
  \/ Cancel
  \/ \E i \in Workers : FetchCall(i)
  \/ \E i \in Workers : WalletBegin(i)
  \/ \E i \in Workers : GetLimiter(i)
  \/ \E i \in Workers : LimiterWait(i)
  \/ \E i \in Workers : WaitExceedsDeadline(i)
  \/ \E i \in Workers : HttpAttempt(i)
  \/ \E i \in Workers : BackoffEnd(i)
  \/ \E i \in Workers : BackoffCancelled(i)
  \/ \E api \in RegisteredAPIs : Refill(api)

\* the Fetch calls of concurrent units that share a context and the limiter
FetchSpec == FetchInit /\ [][FetchNext]_vars

(***************************************************************************)
(* Properties of Coordinator.Run (Spec, FairSpec).                         *)
(***************************************************************************)
\* the positions in consumed of the results built by the worker of unit i
ConsumedOf(i) == {k \in 1..Len(consumed) : consumed[k].unit = i}

Returned == mainPc = "returned"

\* C1: a Run over a non-empty list of N units has consumed, when it returns,
\* exactly N results, exactly one of each unit, whichever Fetch calls failed;
\* and it never consumes two results of one unit
C1_OneOutcomePerUnit ==
  /\ \A i \in Workers : Cardinality(ConsumedOf(i)) <= 1
  /\ (Returned /\ N > 0) =>
       /\ Len(consumed) = N
       /\ \A i \in Workers : Cardinality(ConsumedOf(i)) = 1

\* a Run over two units has returned, one Fetch failed and one succeeded
C1_Witness ==
  /\ Returned
  /\ N = 2
  /\ \E k \in 1..Len(consumed) : consumed[k].Error # NilErr
  /\ \E k \in 1..Len(consumed) : consumed[k].Error = NilErr

\* C2: with an empty unit list Run returns "no fetchers configured" straight
\* from its start: no goroutine is launched, the closer is not started and
\* no result is sent or consumed
C2_EmptyListIsAnError ==
  N = 0 =>
    /\ mainPc \in {"start", "returned"}
    /\ launched = 0
    /\ wg = 0
    /\ closerPc = "none"
    /\ resultChan = <<>>
    /\ consumed = <<>>
    /\ Returned => runErr = "no fetchers configured"

\* Run has returned for the empty list
C2_Witness == N = 0 /\ Returned /\ runErr = "no fetchers configured"

\* C3: when Run has returned, its error is non-nil exactly when the unit list
\* is empty, also when every Fetch failed or the context is done
C3_ErrorIffEmpty == Returned => (runErr # "nil" <=> N = 0)

\* Run has returned for a non-empty list with the context done and every
\* consumed result an error
C3_Witness ==
  /\ Returned
  /\ N > 0
  /\ ctxDone
  /\ \A k \in 1..Len(consumed) : consumed[k].Error # NilErr

\* C4: when Run has returned, the Fetch of every unit was invoked, and every
\* unit whose Fetch returned (v, nil) has the result (its key, v, nil) among
\* the consumed ones, whatever its siblings returned
C4_SiblingIsolation ==
  (Returned /\ N > 0) =>
    \A i \in Workers :
      /\ invoked[i] >= 1
      /\ ret[i].err = NilErr =>
           \E k \in ConsumedOf(i) :
             /\ consumed[k].Key = Key(fetchers[i])
             /\ consumed[k].Value = ret[i].value
             /\ consumed[k].Error = NilErr

\* Run has returned; a unit failed with the context's error, its sibling
\* succeeded and the sibling's result was consumed
C4_Witness ==
  /\ Returned
  /\ \E i, j \in Workers :
       /\ ret[i].err = CtxErr
       /\ ret[j].err = NilErr
       /\ \E k \in ConsumedOf(j) : consumed[k].Error = NilErr

\* C5: under fair scheduling of Run, the workers and the closer, with every
\* Fetch returning, Run returns
C5_RunTerminates == <>Returned

\* Run has returned after two workers and the closer ran
C5_Witness ==
  /\ Returned
  /\ N = 2
  /\ closerPc = "closed"
  /\ \A i \in Workers : wpc[i] = "exit"

\* C6: once the context is done, the drain loop does not stay blocked on the
\* empty result channel: Run can return though a Fetch has not returned
C6_DrainObservesContext ==
  (ctxDone /\ mainPc = "drain" /\ resultChan = <<>>) => ENABLED DrainEnd

(***************************************************************************)
(* Properties of the units' Fetch (FetchSpec).                             *)
(***************************************************************************)
FetchReturned(i) == wpc[i] = "send"

\* C7: a unit whose Fetch had not returned when the context became done
\* returns an error classified Timeout or Network
C7_DoneContextTimeoutOrNetwork ==
  \A i \in pendingAtDone :
    FetchReturned(i) =>
      /\ IsFetchError(ret[i].err)
      /\ AsFetchError(ret[i].err).Type \in {ErrorTypeTimeout, ErrorTypeNetwork}

\* C8: an HTTP attempt that ends while the context is done is the unit's
\* last one: Fetch returns an error with it, no backoff and no further
\* attempt follows
C8_NoRetryOnceDone ==
  [][\A i \in Workers :
       (ctxDone /\ wpc[i] = "http" /\ reqs'[i] # reqs[i]) =>
         /\ wpc'[i] = "send"
         /\ ret'[i].err # NilErr]_vars

\* the context became done while a stock or valuation unit was in its first
\* attempt; the Fetch has returned the context's error after that one attempt
\* though the client allows retries
C8_Witness ==
  \E i \in pendingAtDone :
    /\ FetchReturned(i)
    /\ RetryCountOf(fetchers[i]) > 0
    /\ Len(reqs[i]) = 1
    /\ ret[i].err = NewNetworkError("ctx")

\* C9: every non-nil error a Fetch returns is or wraps a FetchError of one
\* of the seven types
C9_ErrorsAreFetchErrors ==
  \A i \in Workers :
    (FetchReturned(i) /\ ret[i].err # NilErr) =>
      /\ IsFetchError(ret[i].err)
      /\ AsFetchError(ret[i].err).Type \in ErrorTypes

\* C10: a unit has issued an HTTP request only after its Limiter.Wait
\* returned nil
C10_TokenBeforeRequest == \A i \in Workers : reqs[i] # <<>> => waited[i]

\* the attempts unit i has made of the HTTP call it issued last; each call of a
\* Fetch has a name of its own
AttemptsOfLastCall(i) ==
  Cardinality({k \in DOMAIN reqs[i] : reqs[i][k] = reqs[i][Len(reqs[i])]})

\* the latest HTTP call of unit i ended, with the context not done, in a signal
\* the retry policy names: a transport error, 5xx, 429 or 408
EndedRetryable(i) ==
  /\ lastOutcome[i] # NoOutcome
  /\ ~lastOutcome[i].byCtx
  /\ retryCondition(lastOutcome[i])

\* C11: every HTTP call of every variant, both wallet calls included, is under
\* the retry policy: a Fetch that has returned after a call ended in a
\* retryable signal has attempted that call more than once
C11_EveryCallRetried ==
  \A i \in Workers :
    (FetchReturned(i) /\ EndedRetryable(i)) => AttemptsOfLastCall(i) > 1

(***************************************************************************)
(* retryCondition and ClassifyHTTPError applied on their own to every      *)
(* outcome of an attempt (PolicySpec).                                     *)
(***************************************************************************)
\* resty reports StatusCode() 0 for a response that never arrived; -1 stands
\* for the codes no server sends
StatusCodes == (-1)..MaxStatus

\* no unit and no Run: the program state the functions do not touch
NoProgram ==
  /\ fetchers = <<>>
  /\ testMode = TRUE
  /\ wpc = <<>>
  /\ Fresh
  /\ NoCalls

PolicyInit ==
  /\ NoProgram
  /\ arg \in [terr : BOOLEAN, status : StatusCodes]
  /\ out = [fn |-> "none"]

\* retryCondition(r, err) with err != nil iff arg.terr, r.StatusCode() =
\* arg.status
ApplyRetryCondition ==
  /\ out.fn = "none"
  /\ out' = [fn |-> "retryCondition", result |-> retryCondition(arg)]
  /\ UNCHANGED << arg, calls, elapsed, fetchers, testMode, ctxDone, coordVars,
                  wpc, httpVars, ret, invoked, limiterVars, pendingAtDone >>

\* ClassifyHTTPError(arg.status)
ApplyClassifyHTTPError ==
  /\ out.fn = "none"
  /\ out' = [fn |-> "ClassifyHTTPError",
             result |-> ClassifyHTTPError(arg.status)]
  /\ UNCHANGED << arg, calls, elapsed, fetchers, testMode, ctxDone, coordVars,
                  wpc, httpVars, ret, invoked, limiterVars, pendingAtDone >>

PolicyNext ==
  \/ ApplyRetryCondition
  \/ ApplyClassifyHTTPError

PolicySpec == PolicyInit /\ [][PolicyNext]_vars

\* C12: retryCondition returns true exactly when a transport error is
\* present, or the status is 500 or more, or 429, or 408; for every other
\* status, every other 4xx and everything below 400 included, it returns false
C12_RetryDecision ==
  out.fn = "retryCondition" =>
    (out.result <=>
       (arg.terr \/ arg.status >= 500 \/ arg.status = 429 \/ arg.status = 408))

\* retryCondition has been applied to a 408 without a transport error and
\* returned true
C12_Witness ==
  /\ out.fn = "retryCondition"
  /\ ~arg.terr
  /\ arg.status = 408
  /\ out.result = TRUE

\* C14: ClassifyHTTPError(s) carries StatusCode s and is RateLimit, retryable
\* for 429; Server, retryable from 500 up; Client, not retryable for the
\* other codes of 400..499; Unknown, not retryable for every other s
C14_ClassifyByStatus ==
  out.fn = "ClassifyHTTPError" =>
    LET s == arg.status
        e == out.result
    IN /\ e.kind = "FetchError"
       /\ e.StatusCode = s
       /\ (s = 429) => (e.Type = ErrorTypeRateLimit /\ e.Retryable)
       /\ (s >= 500) => (e.Type = ErrorTypeServer /\ e.Retryable)
       /\ (s >= 400 /\ s <= 499 /\ s # 429) =>
            (e.Type = ErrorTypeClient /\ ~e.Retryable)
       /\ (s < 400) => (e.Type = ErrorTypeUnknown /\ ~e.Retryable)

\* ClassifyHTTPError has been applied to 499, the last client code
C14_Witness ==
  /\ out.fn = "ClassifyHTTPError"
  /\ arg.status = 499
  /\ out.result.Type = ErrorTypeClient

(***************************************************************************)
(* The retry bound and the surfaced failure (FetchSpec).                   *)
(***************************************************************************)
\* unit i is built with fetcher.NewHTTPClient, Fetch has returned and its
\* HTTP call ended with a response of the given status
ReturnedOnStatus(i, status) ==
  /\ RetryCountOf(fetchers[i]) = defaultRetryCount
  /\ FetchReturned(i)
  /\ ~lastOutcome[i].terr
  /\ lastOutcome[i].status = status

EndedInFailure(i) ==
  /\ lastOutcome[i] # NoOutcome
  /\ (lastOutcome[i].terr \/ ~IsSuccess(lastOutcome[i].status))

\* the classification of the failure an HTTP call ended in
FailureClass(o) ==
  IF o.terr THEN ErrorTypeNetwork ELSE ClassifyHTTPError(o.status).Type

\* C15: a Fetch that has returned after an HTTP call of its own ended in a
\* transport error or a non-2xx status has returned a non-nil error that
\* carries the classification of that failure
C15_FailureSurfaced ==
  \A i \in Workers :
    (FetchReturned(i) /\ EndedInFailure(i)) =>
      /\ ret[i].err # NilErr
      /\ IsFetchError(ret[i].err)
      /\ AsFetchError(ret[i].err).Type = FailureClass(lastOutcome[i])

(***************************************************************************)
(* The limiter called directly through its exported methods: each call is  *)
(* GetLimiter() followed by Wait(ctx, api) or Allow(api), for a registered *)
(* or an unregistered source name (LimiterSpec).                           *)
(***************************************************************************)
\* the names the calls pass: API is a string type, so any name can be
\* passed; two registered sources and one that initLimiters does not register
SourceNames == {APIEtherscan, APIAlphaVantage, "unknown"}

\* a call not started yet; atDone records whether the context was done when
\* the call returned
Call(op, api) ==
  [op |-> op, api |-> api, pc |-> "start", result |-> "none",
   atDone |-> FALSE]

\* the lists of at most n calls
RECURSIVE CallLists(_)
CallLists(n) ==
  IF n = 0 THEN {<<>>}
  ELSE CallLists(n - 1)
         \cup {Append(l, Call(op, api)) :
                 l \in {x \in CallLists(n - 1) : Len(x) = n - 1},
                 op \in {"Wait", "Allow"}, api \in SourceNames}

Callers == 1..Len(calls)

LimiterInit ==
  /\ fetchers = <<>>
  /\ testMode \in BOOLEAN
  /\ wpc = <<>>
  /\ Fresh
  /\ NoFn
  /\ calls \in CallLists(MaxCallers) \ {<<>>}
  /\ elapsed = [a \in RegisteredAPIs |-> 0]

\* GetLimiter that builds the limiter on every call, without sync.Once
DirectGetLimiterEveryCall(k) ==
  /\ calls[k].pc = "start"
  /\ initialized' = TRUE
  /\ tokens' = initLimiters
  /\ calls' = [calls EXCEPT ![k].pc = "got"]
  /\ UNCHANGED << fnVars, elapsed, fetchers, testMode, ctxDone, coordVars,
                  wpc, httpVars, ret, invoked, pendingAtDone >>

\* ratelimit.GetLimiter() of call k: once.Do runs the initialisation for the
\* first caller and holds every other caller until it is over
DirectGetLimiter(k) ==
  /\ calls[k].pc = "start"
  /\ initialized' = TRUE
  /\ tokens' = IF initialized THEN tokens ELSE initLimiters
  /\ calls' = [calls EXCEPT ![k].pc = "got"]
  /\ UNCHANGED << fnVars, elapsed, fetchers, testMode, ctxDone, coordVars,
                  wpc, httpVars, ret, invoked, pendingAtDone >>

\* Limiter.Wait(ctx, api) of call k returns
DirectWait(k) ==
  /\ calls[k].pc = "got"
  /\ calls[k].op = "Wait"
  /\ \E o \in WaitOutcomes(calls[k].api, ctxDone, tokens, testMode) :
       /\ calls' = [calls EXCEPT ![k].pc = "returned", ![k].result = o,
                                 ![k].atDone = ctxDone]
       /\ tokens' = IF o = "nil" THEN Take(calls[k].api, tokens, testMode)
                    ELSE tokens
  /\ UNCHANGED << fnVars, elapsed, fetchers, testMode, ctxDone, coordVars,
                  wpc, httpVars, ret, invoked, initialized, pendingAtDone >>

\* Limiter.Allow(api): true for an unregistered source, else
\* rate.Limiter.Allow, true when a token is there to take
AllowOutcome(api, bucket, inf) ==
  IF api \notin DOMAIN bucket THEN TRUE
  ELSE inf \/ bucket[api] > 0

\* Limiter.Allow(api) of call k returns
DirectAllow(k) ==
  /\ calls[k].pc = "got"
  /\ calls[k].op = "Allow"
  /\ LET ok == AllowOutcome(calls[k].api, tokens, testMode)
     IN /\ calls' = [calls EXCEPT ![k].pc = "returned",
                                  ![k].result = IF ok THEN "true" ELSE "false",
                                  ![k].atDone = ctxDone]
        /\ tokens' = IF ok THEN Take(calls[k].api, tokens, testMode)
                     ELSE tokens
  /\ UNCHANGED << fnVars, elapsed, fetchers, testMode, ctxDone, coordVars,
                  wpc, httpVars, ret, invoked, initialized, pendingAtDone >>

\* a token period of a source passes while its bucket is full, or while the
\* limiter is unlimited or not built yet: no token is added
IdleTick(api) ==
  /\ elapsed[api] < MaxTicks
  /\ IF initialized /\ ~testMode THEN tokens[api] = Burst ELSE TRUE
  /\ elapsed' = [elapsed EXCEPT ![api] = @ + 1]
  /\ UNCHANGED << calls, fnVars, fetchers, testMode, ctxDone, coordVars, wpc,
                  httpVars, ret, invoked, limiterVars, pendingAtDone >>

\* the registered sources some call names: time on the others is not observed
CalledAPIs == {calls[k].api : k \in Callers} \cap RegisteredAPIs

LimiterNext ==
  \/ Cancel
  \/ \E k \in Callers : DirectGetLimiter(k)
  \/ \E k \in Callers : DirectWait(k)
  \/ \E k \in Callers : DirectAllow(k)
  \/ \E api \in CalledAPIs : Refill(api)
  \/ \E api \in CalledAPIs : IdleTick(api)

LimiterSpec == LimiterInit /\ [][LimiterNext]_vars

\* call k names a source that initLimiters does not register
Unregistered(k) == calls[k].api \notin RegisteredAPIs

\* C16: for a source name that is not registered, whatever the buckets hold
\* and whether or not the context is done, Wait does not block and returns
\* nil, and Allow returns true
C16_UnknownSourceUnlimited ==
  \A k \in Callers :
    Unregistered(k) =>
      /\ (calls[k].pc = "got" /\ calls[k].op = "Wait") => ENABLED DirectWait(k)
      /\ (calls[k].pc = "returned" /\ calls[k].op = "Wait") =>
           calls[k].result = "nil"
      /\ (calls[k].pc = "returned" /\ calls[k].op = "Allow") =>
           calls[k].result = "true"

\* a Wait on an unregistered source has returned nil under a context that was
\* already done, in production mode
C16_Witness ==
  \E k \in Callers :
    /\ Unregistered(k)
    /\ calls[k].op = "Wait"
    /\ calls[k].pc = "returned"
    /\ calls[k].atDone
    /\ calls[k].result = "nil"
    /\ ~testMode

\* the Wait calls on api that have returned nil
Admitted(api) ==
  {k \in Callers :
     /\ calls[k].api = api
     /\ calls[k].op = "Wait"
     /\ calls[k].result = "nil"}

\* C18: with a finite rate, the Wait calls on a registered source that have
\* returned nil never outnumber the burst plus the token periods elapsed on
\* that source (rate times elapsed time), however the callers interleave
C18_RateBound ==
  ~testMode =>
    \A api \in RegisteredAPIs :
      Cardinality(Admitted(api)) <= Burst + elapsed[api]

\* two Wait calls on one registered source were admitted in production mode:
\* the second one after a token period had passed
C18_Witness ==
  /\ ~testMode
  /\ \E api \in RegisteredAPIs :
       /\ Cardinality(Admitted(api)) = 2
       /\ elapsed[api] = 1

(***************************************************************************)
(* The limiter as the units use it, and the order of the wallet's calls    *)
(* (FetchSpec).                                                            *)
(***************************************************************************)
\* the step is the return of unit i's Limiter.Wait with nil
WaitReturnsNil(i) == ~waited[i] /\ waited'[i]

\* C17: the Wait of a unit returns nil only with a token of its source's
\* bucket granted to it; a Wait that returns otherwise, as every Wait under a
\* done context does, returns an error, and the unit's Fetch returns an error
\* classified Timeout
C17_WaitGrantsOrTimesOut ==
  [][\A i \in Workers :
       /\ WaitReturnsNil(i) =>
            /\ wpc[i] = "wait"
            /\ ~ctxDone
            /\ testMode \/
                 LET api == SourceOf(fetchers[i])
                 IN tokens[api] > 0 /\ tokens'[api] = tokens[api] - 1
       /\ (wpc[i] = "wait" /\ wpc'[i] # "wait" /\ ~WaitReturnsNil(i)) =>
            /\ wpc'[i] = "send"
            /\ IsFetchError(ret'[i].err)
            /\ AsFetchError(ret'[i].err).Type = ErrorTypeTimeout]_vars

\* in production mode a unit was waiting for a token its sibling had taken
\* when the context became done, and its Fetch has returned a Timeout error
C17_Witness ==
  \E i \in pendingAtDone :
    /\ ~testMode
    /\ FetchReturned(i)
    /\ ~waited[i]
    /\ ret[i].err = NewTimeoutError("ctx")
    /\ tokens[SourceOf(fetchers[i])] = 0
    /\ \E j \in Workers \ {i} :
         SourceOf(fetchers[j]) = SourceOf(fetchers[i]) /\ waited[j]

\* the units of source api whose Wait has returned nil
AdmittedUnits(api) ==
  {i \in Workers : SourceOf(fetchers[i]) = api /\ waited[i]}

\* C19: the limiter holds one bucket per registered source, shared by the
\* units of that source: a token granted to a unit is taken from the bucket of
\* its source and from no other, and the units of one source are admitted
\* from one bucket, no more of them than its burst plus its refills
C19_OneBucketPerSource ==
  /\ [](initialized => DOMAIN tokens = RegisteredAPIs)
  /\ []((initialized /\ ~testMode) =>
          \A api \in RegisteredAPIs :
            Cardinality(AdmittedUnits(api))
              = Burst + elapsed[api] - tokens[api])
  /\ [][\A i \in Workers :
          (WaitReturnsNil(i) /\ ~testMode) =>
            \A api \in RegisteredAPIs :
              tokens'[api] = IF api = SourceOf(fetchers[i])
                             THEN tokens[api] - 1
                             ELSE tokens[api]]_vars

\* two units of one source in production mode: one was granted the token and
\* the other is blocked in Wait on the empty bucket
C19_Witness ==
  /\ ~testMode
  /\ ~ctxDone
  /\ \E i, j \in Workers :
       /\ i # j
       /\ SourceOf(fetchers[i]) = SourceOf(fetchers[j])
       /\ waited[i]
       /\ wpc[j] = "wait"
       /\ tokens[SourceOf(fetchers[j])] = 0

\* the step is a request of unit i for the given name
Issues(i, name) ==
  /\ reqs'[i] # reqs[i]
  /\ reqs'[i][Len(reqs'[i])] = name

\* C20: a wallet Fetch issues its balance request only after its price
\* request was issued and returned a valid price, and issues no price request
\* after a balance request: a failed price step is never followed by a balance
\* request
C20_PriceBeforeBalance ==
  [][\A i \in Workers :
       fetchers[i].kind = "wallet" =>
         /\ Issues(i, "balance") =>
              /\ \E k \in DOMAIN reqs[i] : reqs[i][k] = "ethprice"
              /\ lastOutcome[i] = Signal(Response(200, <<>>))
              /\ ethUSD[i] > 0
              /\ ~FetchReturned(i)
         /\ Issues(i, "ethprice") =>
              /\ \A k \in DOMAIN reqs[i] : reqs[i][k] # "balance"
              /\ ~FetchReturned(i)]_vars

\* a wallet Fetch has issued the price request, then the balance request, and
\* returned a value
C20_Witness ==
  \E i \in Workers :
    /\ fetchers[i].kind = "wallet"
    /\ reqs[i] = <<"ethprice", "balance">>
    /\ FetchReturned(i)
    /\ ret[i].err = NilErr
    /\ ret[i].value.cents > 0

(***************************************************************************)
(* The wallet's conversion, applied to balances and prices drawn from      *)
(* bounded sets.                                                           *)
(***************************************************************************)
Zeros(n) == [k \in 1..n |-> "0"]

\* the 18 decimals of a balance in ETH
WeiFractions ==
  { Zeros(18),
    <<"5">> \o Zeros(17),
    Zeros(17) \o <<"1">>,
    [k \in 1..18 |-> "9"],
    <<"1", "2", "3", "4", "5", "6", "7", "8", "9",
      "0", "1", "2", "3", "4", "5", "6", "7", "8">> }

\* "result" of the balance response: wei in decimal, up to MaxEth ETH and
\* two balances below 1 ETH written without leading zeros
WeiBalances ==
  {NatToDigits(w) \o f : w \in 0..MaxEth, f \in WeiFractions}
    \cup {<<"7">>, <<"4", "2">> \o Zeros(15)}

\* "ethusd" of the price response, with the price it writes in cents
EthPrices ==
  { [text |-> <<"2", "0", "0", "0", ".", "5", "0">>, cents |-> 200050],
    [text |-> <<"3", "5", "0", "0", ".", "0", "0">>, cents |-> 350000],
    [text |-> <<"1", "9", "9", "9", ".", "9", "9">>, cents |-> 199999],
    [text |-> <<"0", ".", "0", "1">>, cents |-> 1],
    [text |-> <<"1">>, cents |-> 100] }

ConvertInit ==
  /\ NoProgram
  /\ arg \in [balance : WeiBalances, price : EthPrices]
  /\ out = [fn |-> "none"]

\* WalletFetcher.Fetch with both requests answered 200: the price parsed by
\* fetchEthPrice, then the balance parsed and converted
ApplyWalletFetch ==
  /\ out.fn = "none"
  /\ LET ethUSDNow == fetchEthPrice(Response(200, arg.price.text))
     IN out' = [fn |-> "WalletFetcher.Fetch",
                result |-> WalletFetchReturn(Response(200, arg.balance),
                                             ethUSDNow.value)]
  /\ UNCHANGED << arg, calls, elapsed, fetchers, testMode, ctxDone, coordVars,
                  wpc, httpVars, ret, invoked, limiterVars, pendingAtDone >>

ConvertNext == ApplyWalletFetch

ConvertSpec == ConvertInit /\ [][ConvertNext]_vars

\* b * p / 10^18 for a balance of b wei and a price of p cents: the digits of
\* the product b * p, cut before its last 18
WeiTimesPrice(b, p) ==
  LET product == PadLeft(MulDigits(b, p, 0), 19)
      n == Len(product)
  IN [cents |-> DigitsToNat(SubSeq(product, 1, n - 18)),
      sub |-> SubSeq(product, n - 17, n)]

OneEthInWei == <<"1">> \o Zeros(18)

PriceChars == {"1", "7", ".", "-", "N", "a"}

\* the texts of a "05. price" field
PriceTexts ==
  UNION {[1..n -> PriceChars] : n \in 0..MaxPriceLen}
    \cup { <<"1", "7", "8", ".", "2", "3">>, <<"I", "n", "f">>,
           <<"i", "n", "v", "a", "l", "i", "d">> }

\* the JSON documents of a response: a "Global Quote" object with a price
\* field, one without, the empty object, and the provider's "Note"
QuoteDocs ==
  {[shape |-> "quote", price |-> t] : t \in PriceTexts}
    \cup {[shape |-> "quoteWithoutPrice"], [shape |-> "emptyObject"],
          [shape |-> "note"]}

\* result.GlobalQuote.Price after SetResult(&result) decoded the document:
\* the field's text, or "" when the document has no such field
DecodePrice(doc) == IF doc.shape = "quote" THEN doc.price ELSE <<>>

StockParseInit ==
  /\ NoProgram
  /\ arg \in [status : {200, 201}, doc : QuoteDocs]
  /\ out = [fn |-> "none"]

\* StockFetcher.Fetch from the response on
ApplyStockFetch ==
  /\ out.fn = "none"
  /\ out' = [fn |-> "StockFetcher.Fetch",
             result |->
               StockFetchReturn(Response(arg.status, DecodePrice(arg.doc)))]
  /\ UNCHANGED << arg, calls, elapsed, fetchers, testMode, ctxDone, coordVars,
                  wpc, httpVars, ret, invoked, limiterVars, pendingAtDone >>

StockParseNext == ApplyStockFetch

StockParseSpec == StockParseInit /\ [][StockParseNext]_vars

\* a decimal number: an optional sign, then digits with at most one "."
IsDecimal(t) ==
  LET u == IF t # <<>> /\ t[1] \in {"+", "-"} THEN Tail(t) ELSE t
  IN /\ \A k \in 1..Len(u) : u[k] \in DigitChars \cup {"."}
     /\ Cardinality({k \in 1..Len(u) : u[k] = "."}) <= 1
     /\ \E k \in 1..Len(u) : u[k] \in DigitChars

\* the price field of the document is absent or empty
PriceMissing(doc) == doc.shape # "quote" \/ doc.price = <<>>

\* C22: a stock Fetch that receives a 2xx response returns the price with a
\* nil error when the price field is a decimal number, a Validation error
\* when the field is absent or empty (empty object and rate-limit notice
\* included), and a Validation error when the field is present but not a
\* decimal number
C22_QuoteParsing ==
  out.fn = "StockFetcher.Fetch" =>
    IF PriceMissing(arg.doc) THEN out.result.err = NewValidationError
    ELSE IF IsDecimal(arg.doc.price)
    THEN /\ out.result.err = NilErr
         /\ out.result.value = ParseFloat(arg.doc.price).v
    ELSE out.result.err = NewValidationError

(***************************************************************************)
(* One valuation unit whose Fetch is called several times, one call after  *)
(* the other; calls is the history of the calls.                           *)
(***************************************************************************)
\* the JSON documents of a 2xx response: a valuation with a price, one
\* without, and the empty object
ValuationDocs ==
  {[shape |-> "valuation", price |-> p, priceRangeLow |-> l] :
     p \in {0, 25000000, 30000000}, l \in {0, 28000000}}
    \cup {[shape |-> "withoutPrice", price |-> 0, priceRangeLow |-> 20000000],
          [shape |-> "emptyObject", price |-> 0, priceRangeLow |-> 0]}

NoDoc == [shape |-> "none", price |-> 0, priceRangeLow |-> 0]

\* result after SetResult(&result) decoded the document; a field the
\* document lacks keeps its zero value
DecodeValuation(doc) == PropertyValueResponse(doc.price, doc.priceRangeLow)

\* the ways one Fetch of the unit can go: the limiter's Wait fails, the
\* request fails in transport, or it is answered; only a 2xx document is
\* decoded
FetchCourses ==
  {[waitErr |-> TRUE, r |-> TransportFailure(TRUE), doc |-> NoDoc]}
    \cup {[waitErr |-> FALSE, r |-> TransportFailure(FALSE), doc |-> NoDoc]}
    \cup {[waitErr |-> FALSE, r |-> Response(st, DecodeValuation(NoDoc)),
           doc |-> NoDoc] : st \in {404, 503}}
    \cup {[waitErr |-> FALSE, r |-> Response(200, DecodeValuation(doc)),
           doc |-> doc] : doc \in ValuationDocs}

ValuationInit ==
  /\ fetchers = <<PropertyUnit>>
  /\ testMode = TRUE
  /\ wpc = [i \in Workers |-> "run"]
  /\ Fresh
  /\ NoCalls
  /\ NoFn

\* PropertyFetcher.Fetch, from its call to its return
PropertyFetch ==
  /\ fetchers[1].kind = "valuation"
  /\ Len(calls) < MaxFetches
  /\ \E c \in FetchCourses :
       LET fr == IF c.waitErr THEN Return(0, NewTimeoutError("ctx"))
                 ELSE PropertyFetchReturn(c.r)
           stored == IF c.waitErr THEN lastResponse[1]
                     ELSE StoreLastResponse(c.r, lastResponse[1])
       IN /\ calls' = Append(calls, [course |-> c, result |-> fr,
                                     before |-> lastResponse[1]])
          /\ lastResponse' = [lastResponse EXCEPT ![1] = stored]
  /\ UNCHANGED << elapsed, fnVars, fetchers, testMode, ctxDone, coordVars,
                  wpc, call, attempt, ethUSD, reqs, waited, lastOutcome,
                  retried404, ret, invoked, limiterVars, pendingAtDone >>

ValuationNext == PropertyFetch

ValuationSpec == ValuationInit /\ [][ValuationNext]_vars

\* the call was answered 2xx with a document whose price is 0 or absent
PriceZeroOrAbsent(c) ==
  /\ ~c.course.waitErr
  /\ ~c.course.r.terr
  /\ IsSuccess(c.course.r.status)
  /\ c.course.doc.shape \in {"withoutPrice", "emptyObject"}
       \/ c.course.doc.price = 0

\* C23: a valuation Fetch never returns (0, nil); a 2xx response whose price
\* is 0 or absent gives a Validation error, and a successful Fetch returns a
\* price that is not zero
C23_NeverZeroSuccess ==
  \A k \in 1..Len(calls) :
    /\ ~(calls[k].result.value = 0 /\ calls[k].result.err = NilErr)
    /\ PriceZeroOrAbsent(calls[k])
         => calls[k].result = Return(0, NewValidationError)
    /\ calls[k].result.err = NilErr
         => /\ calls[k].result.value # 0
            /\ calls[k].result.value = calls[k].course.doc.price

\* a Fetch answered 200 with "price": 0 has returned a Validation error and
\* a later one, answered with a price, has returned that price
C23_Witness ==
  \E j, k \in 1..Len(calls) :
    /\ j < k
    /\ calls[j].course.doc.shape = "valuation"
    /\ calls[j].course.doc.price = 0
    /\ calls[j].result.err = NewValidationError
    /\ calls[k].result = Return(30000000, NilErr)

\* the calls of the history that returned a nil error
Successes == {k \in 1..Len(calls) : calls[k].result.err = NilErr}

\* f.lastResponse when call k has returned
AfterCall(k) ==
  IF k = Len(calls) THEN lastResponse[1] ELSE calls[k + 1].before

\* C30: a valuation unit's lastResponse is nil until its first successful
\* Fetch, is afterwards the decoded response of the most recent successful
\* Fetch, and is left as it was by a Fetch that fails
C30_LastResponse ==
  /\ Successes = {} => lastResponse[1] = <<>>
  /\ Successes # {} =>
       LET k == CHOOSE j \in Successes : \A m \in Successes : m <= j
       IN lastResponse[1] = <<DecodeValuation(calls[k].course.doc)>>
  /\ \A k \in 1..Len(calls) :
       calls[k].result.err # NilErr => AfterCall(k) = calls[k].before

\* a successful Fetch has stored its response, and a later Fetch that was
\* answered with "price": 0 and a range has failed and left it in place
C30_Witness ==
  \E j, k \in 1..Len(calls) :
    /\ j < k
    /\ k = Len(calls)
    /\ calls[j].result.err = NilErr
    /\ calls[k].before = <<DecodeValuation(calls[j].course.doc)>>
    /\ calls[k].course.doc.shape = "valuation"
    /\ calls[k].course.doc.priceRangeLow # 0
    /\ calls[k].result.err = NewValidationError
    /\ lastResponse[1] = calls[k].before

(***************************************************************************)
(* Key of the three variants, applied to identifiers drawn from a bounded  *)
(* set.                                                                    *)
(***************************************************************************)
IdentChars == {"A", "b", "7", " ", ","}

GrandLakeAddress ==
  << "5", "5", "0", "0", " ", "G", "r", "a", "n", "d", " ", "L", "a", "k",
     "e", " ", "D", "r", ",", " ", "S", "a", "n", " ", "A", "n", "t", "o",
     "n", "i", "o", ",", " ", "T", "X", " ", "7", "8", "2", "4", "4" >>

GrandLakeStub ==
  << "5", "5", "0", "0", "_", "g", "r", "a", "n", "d", "_", "l", "a", "k",
     "e", "_", "d", "r", "_", "s", "a", "n", "_", "a", "n", "t", "o", "n",
     "i", "o", "_", "t", "x", "_", "7", "8", "2", "4", "4" >>

BroadwayAddress ==
  << "4", "5", "6", " ", "B", "R", "O", "A", "D", "W", "A", "Y", " ", "A",
     "V", "E", ",", " ", "N", "E", "W", " ", "Y", "O", "R", "K", ",", " ",
     "N", "Y", " ", "1", "0", "0", "0", "1" >>

\* wallet addresses, tickers and property addresses
Identifiers ==
  UNION {[1..n -> IdentChars] : n \in 0..MaxIdentLen}
    \cup {GrandLakeAddress, BroadwayAddress}

KeyInit ==
  /\ NoProgram
  /\ arg \in [kind : {"wallet", "stock", "valuation"}, ident : Identifiers]
  /\ out = [fn |-> "none"]

\* Key() of the unit arg
ApplyKey ==
  /\ out.fn = "none"
  /\ out' = [fn |-> "Key", result |-> Key(arg)]
  /\ UNCHANGED << arg, calls, elapsed, fetchers, testMode, ctxDone, coordVars,
                  wpc, httpVars, ret, invoked, limiterVars, pendingAtDone >>

KeyNext == ApplyKey

KeySpec == KeyInit /\ [][KeyNext]_vars

\* a with every comma removed, every space replaced by "_" and every letter
\* lowercased, character by character
Normalized(a) ==
  LET kept == SelectSeq(a, LAMBDA c : c # ",")
  IN [k \in 1..Len(kept) |->
        IF kept[k] = " " THEN "_" ELSE ToLowerChar(kept[k])]

RentcastPrefix ==
  << "f", "e", "t", "c", "h", "e", "r", ":", "r", "e", "n", "t", "c", "a",
     "s", "t", ":" >>

\* C24: the valuation unit's Key() is "fetcher:rentcast:" followed by the
\* address with every space replaced by "_", every comma removed and every
\* letter lowercased; "5500 Grand Lake Dr, San Antonio, TX 78244" gives the
\* suffix 5500_grand_lake_dr_san_antonio_tx_78244
C24_ValuationKey ==
  out.fn = "Key" /\ arg.kind = "valuation" =>
    /\ out.result = RentcastPrefix \o Normalized(arg.ident)
    /\ arg.ident = GrandLakeAddress
         => out.result = RentcastPrefix \o GrandLakeStub

\* Key() of the valuation unit of "5500 Grand Lake Dr, San Antonio, TX 78244"
\* has been computed
C24_Witness ==
  /\ out.fn = "Key"
  /\ arg.kind = "valuation"
  /\ arg.ident = GrandLakeAddress
  /\ out.result = RentcastPrefix \o GrandLakeStub

\* the part of a key after its second ":"
RECURSIVE AfterColons(_, _)
AfterColons(key, n) ==
  IF n = 0 \/ key = <<>> THEN key
  ELSE AfterColons(Tail(key), IF Head(key) = ":" THEN n - 1 ELSE n)

\* C25: for a wallet, stock or valuation unit whose identifier contains a
\* space or a comma, Key() contains no space and no comma and its identifier
\* part is lowercase
C25_FlatToken ==
  out.fn = "Key" /\ (\E k \in 1..Len(arg.ident) : arg.ident[k] \in {" ", ","})
    => /\ \A k \in 1..Len(out.result) : out.result[k] \notin {" ", ","}
       /\ AfterColons(out.result, 2) = ToLower(AfterColons(out.result, 2))

(***************************************************************************)
(* One unit of any variant whose Fetch is called several times, one call   *)
(* after the other.                                                        *)
(***************************************************************************)
\* what a request of a sequential call ends in
Answers(name) ==
  {TransportFailure(FALSE), Response(404, <<>>)}
    \cup {Response(200, b) : b \in Bodies(name)}

\* StockFetcher.Fetch, from its call to its return
StockFetch ==
  /\ fetchers[1].kind = "stock"
  /\ Len(calls) < MaxFetches
  /\ \E waitErr \in BOOLEAN, r \in Answers("GLOBAL_QUOTE") :
       LET fr == IF waitErr THEN Return(0, NewTimeoutError("ctx"))
                 ELSE StockFetchReturn(r)
       IN calls' = Append(calls, [course |-> [waitErr |-> waitErr, r |-> r],
                                  result |-> fr, before |-> lastResponse[1]])
  /\ UNCHANGED << elapsed, fnVars, fetchers, testMode, ctxDone, coordVars,
                  wpc, httpVars, ret, invoked, limiterVars, pendingAtDone >>

\* WalletFetcher.Fetch, from its call to its return: the price request, and
\* the balance request when the price was read
WalletFetch ==
  /\ fetchers[1].kind = "wallet"
  /\ Len(calls) < MaxFetches
  /\ \E r1 \in Answers("ethprice"), r2 \in Answers("balance") :
       LET price == fetchEthPrice(r1)
           fr == IF price.next THEN WalletFetchReturn(r2, price.value)
                 ELSE Return(price.value, price.err)
       IN calls' = Append(calls, [course |-> [waitErr |-> FALSE, r |-> r1],
                                  result |-> fr, before |-> lastResponse[1]])
  /\ UNCHANGED << elapsed, fnVars, fetchers, testMode, ctxDone, coordVars,
                  wpc, httpVars, ret, invoked, limiterVars, pendingAtDone >>

RepeatInit ==
  /\ fetchers \in {<<u>> : u \in Units}
  /\ testMode = TRUE
  /\ wpc = [i \in Workers |-> "run"]
  /\ Fresh
  /\ NoCalls
  /\ NoFn

RepeatNext ==
  \/ PropertyFetch
  \/ StockFetch
  \/ WalletFetch

RepeatSpec == RepeatInit /\ [][RepeatNext]_vars

\* a Key() that marks a unit that holds a response
UnitKeyOfResponse(u, last) ==
  IF last # <<>> THEN Key(u) \o <<":", "o", "k">> ELSE Key(u)

\* ft.Key() of a unit with the fields u that identify it and the
\* lastResponse last, which Key does not read
UnitKey(u, last) == Key(u)

C27_FifoOrder ==
  /\ Len(consumed) + Len(resultChan) = Len(deposited)
  /\ \A k \in 1..Len(consumed) : consumed[k].unit = deposited[k]
  /\ \A k \in 1..Len(resultChan) :
       resultChan[k].unit = deposited[Len(consumed) + k]

\* the second unit of the list deposited first, the first unit second, and
\* both results have been consumed in that order
C27_Witness ==
  /\ Len(deposited) >= 2
  /\ deposited[1] = 2
  /\ deposited[2] = 1
  /\ Len(consumed) >= 2
  /\ consumed[1].unit = 2
  /\ consumed[2].unit = 1

\* C28: units run in parallel: the launch loop starts the next unit whatever
\* the units already started are doing, and a started unit's Fetch can be
\* called whatever its siblings are doing, so that all N Fetch calls are in
\* flight together and a slow unit delays no other unit's start
C28_Parallel ==
  /\ mainPc = "launch" /\ launched < N => ENABLED Launch
  /\ \A i \in Workers : wpc[i] = "run" => ENABLED FetchCall(i)

\* the Fetch calls of all units of a list of two or more, a slow unit among
\* them, are in flight at once
C28_Witness ==
  /\ N >= 2
  /\ \A i \in Workers : wpc[i] = "fetch"
  /\ \E i \in Workers : fetchers[i].slow

\* C29: within one Run the Fetch of each unit is invoked exactly once: never
\* twice, once as soon as its goroutine has a result, and once for every unit
\* when Run returns nil
C29_FetchOnce ==
  /\ \A i \in Workers : invoked[i] <= 1
  /\ \A i \in Workers : wpc[i] \in {"fetch", "send", "done", "exit"}
                          => invoked[i] = 1
  /\ mainPc = "returned" /\ runErr = "nil"
       => \A i \in Workers : invoked[i] = 1

\* Run over two or more units has returned nil and every unit's Fetch was
\* invoked once
C29_Witness ==
  /\ N >= 2
  /\ mainPc = "returned"
  /\ runErr = "nil"
  /\ \A i \in Workers : invoked[i] = 1

\* the deposits of unit i
DepositsOf(i) == {k \in 1..Len(deposited) : deposited[k] = i}

\* C31: producers never block on the channel: at most N results are
\* buffered, each worker sends exactly one result, and a worker that is at
\* its send finds the channel open with room left, so the send completes at
\* once even when nothing was consumed yet
C31_ProducersNeverBlock ==
  /\ Len(resultChan) <= N
  /\ \A i \in Workers :
       /\ Cardinality(DepositsOf(i)) <= 1
       /\ wpc[i] \in {"done", "exit"} => Cardinality(DepositsOf(i)) = 1
       /\ wpc[i] = "send" =>
            /\ ~chanClosed
            /\ Len(resultChan) < N
            /\ ENABLED Send(i)

\* every worker of a list of two or more has sent while the drain loop has
\* consumed nothing: the buffer holds all N results
C31_Witness ==
  /\ N >= 2
  /\ Len(resultChan) = N
  /\ consumed = <<>>
  /\ \A i \in Workers : wpc[i] \in {"done", "exit"}

\* C32: the channel is closed once, and only after every worker has sent: no
\* worker sends on the closed channel, nothing closes or reopens a closed
\* channel, and Run does not return while a deposited result is unconsumed
C32_ClosedOnceAfterSends ==
  /\ [](/\ ~panicked
        /\ chanClosed =>
             /\ \A i \in Workers : wpc[i] = "exit"
             /\ Len(deposited) = N
             /\ ~ENABLED CloserClose
        /\ mainPc = "returned" /\ N # 0 =>
             /\ chanClosed
             /\ resultChan = <<>>
             /\ Len(consumed) = Len(deposited))
  /\ [][chanClosed => chanClosed']_vars

\* the channel was closed after both workers sent and while a result is
\* still buffered, which the drain loop has yet to receive
C32_Witness ==
  /\ N >= 2
  /\ chanClosed
  /\ mainPc = "drain"
  /\ resultChan # <<>>
  /\ Len(deposited) = N

\* C38: when Run returns for a non-empty list, all N workers have finished,
\* the WaitGroup is at zero, the channel is closed and empty, and all N
\* results have been consumed
C38_ReturnMeansAllDone ==
  (Returned /\ N > 0) =>
    /\ \A i \in Workers : wpc[i] = "exit"
    /\ wg = 0
    /\ closerPc = "closed"
    /\ chanClosed
    /\ resultChan = <<>>
    /\ Len(consumed) = N

\* Run has returned for a list of two or more with the context done: the
\* channel is closed and empty and every result was consumed
C38_Witness ==
  /\ Returned
  /\ N >= 2
  /\ ctxDone
  /\ chanClosed
  /\ resultChan = <<>>
  /\ Len(consumed) = N

\* the results that were deposited: the consumed ones, then the buffered ones
Deposits == consumed \o resultChan

\* C40: every deposited result pairs the key of a unit with the value and
\* the error that unit's own Fetch returned, in every interleaving of the
\* workers
C40_OutcomePairing ==
  \A k \in 1..Len(Deposits) :
    LET i == Deposits[k].unit
    IN /\ i \in Workers
       /\ Deposits[k].Key = Key(fetchers[i])
       /\ Deposits[k].Value = ret[i].value
       /\ Deposits[k].Error = ret[i].err

\* two units with different keys, one failed and one succeeded, have
\* deposited in the reverse of their launch order, each with its own key,
\* value and error
C40_Witness ==
  /\ Len(Deposits) >= 2
  /\ Deposits[1].unit = 2
  /\ Deposits[2].unit = 1
  /\ Key(fetchers[1]) # Key(fetchers[2])
  /\ Deposits[1].Key = Key(fetchers[2])
  /\ Deposits[1].Error # NilErr
  /\ Deposits[2].Key = Key(fetchers[1])
  /\ Deposits[2].Error = NilErr

\* C33: a stock or valuation Fetch whose HTTP call ended, after its retries,
\* in a transport failure, a context cancelled or expired during the call
\* included, returns 0 and a FetchError of type Network, retryable, whose
\* cause is the transport's error
C33_TransportIsNetwork ==
  \A i \in Workers :
    (/\ fetchers[i].kind \in {"stock", "valuation"}
     /\ FetchReturned(i)
     /\ lastOutcome[i].terr)
      => /\ ret[i].value = 0
         /\ ret[i].err.kind = "FetchError"
         /\ ret[i].err.Type = ErrorTypeNetwork
         /\ ret[i].err.Retryable = TRUE
         /\ ret[i].err.Cause = IF lastOutcome[i].byCtx THEN "ctx"
                               ELSE "transport"

\* a stock unit's call was retried and then failed because the context was
\* done, and its Fetch has returned a Network error
C33_Witness ==
  \E i \in Workers :
    /\ fetchers[i].kind = "stock"
    /\ FetchReturned(i)
    /\ Len(reqs[i]) >= 2
    /\ lastOutcome[i].terr
    /\ lastOutcome[i].byCtx
    /\ ret[i].err.Type = ErrorTypeNetwork

\* C34: GetLimiter initialises the limiter once, also when several callers
\* call it first at the same time: a caller that has its limiter finds the
\* three sources registered, and a later GetLimiter returns the limiter as it
\* is, its buckets untouched
C34_InitialisedOnce ==
  /\ [](/\ initialized => DOMAIN tokens = RegisteredAPIs
        /\ ~initialized => DOMAIN tokens = {}
        /\ \A k \in Callers :
             calls[k].pc \in {"got", "returned"} => initialized)
  /\ [][/\ initialized => initialized'
        /\ \A k \in Callers :
             (initialized /\ calls[k].pc = "start" /\ calls'[k].pc = "got")
               => tokens' = tokens]_vars

\* two callers have the limiter of a rate-limited process, and the token one
\* of them took is still missing from its bucket
C34_Witness ==
  /\ Len(calls) >= 2
  /\ ~testMode
  /\ initialized
  /\ \A k \in Callers : calls[k].pc \in {"got", "returned"}
  /\ \E k \in Callers : calls[k].pc = "got"
  /\ \E a \in RegisteredAPIs : tokens[a] = 0

\* C39: Wait and Allow leave the registry as initLimiters built it: no call
\* adds or removes a source, a call for an unknown source does not register
\* it, and the registered sources are the same three for the process's life
C39_RegistryConstant ==
  /\ [](initialized =>
          /\ DOMAIN tokens = RegisteredAPIs
          /\ \A k \in Callers :
               Unregistered(k) => calls[k].api \notin DOMAIN tokens)
  /\ [][initialized => DOMAIN tokens' = DOMAIN tokens]_vars

\* a Wait and an Allow for an unknown source have both returned and the
\* registry holds the three sources
C39_Witness ==
  /\ initialized
  /\ DOMAIN tokens = RegisteredAPIs
  /\ \E j, k \in Callers :
       /\ Unregistered(j)
       /\ calls[j].op = "Wait"
       /\ calls[j].pc = "returned"
       /\ Unregistered(k)
       /\ calls[k].op = "Allow"
       /\ calls[k].pc = "returned"

\* C35: the retry decision and the classification agree on every status of
\* 400 or more: retryCondition on a response with status s, no transport
\* error, is true exactly when ClassifyHTTPError(s).Retryable is
C35_RetryAgreesWithClass ==
  (out.fn = "retryCondition" /\ ~arg.terr /\ arg.status >= 400) =>
    (out.result <=> ClassifyHTTPError(arg.status).Retryable)

\* the units of the two variants that go through the limiter and the
\* retrying client
LimitedUnits ==
  {i \in Workers : fetchers[i].kind \in {"stock", "valuation"}}

C37_WaitFailureNoRequest ==
  \A i \in LimitedUnits :
    /\ (FetchReturned(i) /\ ~waited[i]) =>
         /\ ret[i].value = 0
         /\ ret[i].err \in {NewTimeoutError("ctx"), NewTimeoutError("limit")}
         /\ reqs[i] = <<>>
         /\ lastOutcome[i] = NoOutcome
    /\ ~waited[i] => reqs[i] = <<>>

\* the wait of a valuation unit failed on the cancelled context and its Fetch
\* has returned without a request, while a sibling's request was issued
C37_Witness ==
  \E i \in LimitedUnits :
    /\ fetchers[i].kind = "valuation"
    /\ FetchReturned(i)
    /\ ~waited[i]
    /\ reqs[i] = <<>>
    /\ ret[i] = Return(0, NewTimeoutError("ctx"))
    /\ \E j \in LimitedUnits \ {i} : reqs[j] # <<>>

====
